---- MODULE Spec2Model ----
(***************************************************************************)
(* Model of the inventory_api addon (controllers/inventory_controller.py): *)
(* the stock.quant ledger, the move / move-line reservations the transfer  *)
(* repairs, and the stock.quant.change audit log.                          *)
(*                                                                         *)
(* Quantities are integers.  Records of a table are kept in a sequence in  *)
(* id order, which is the order every search() of the controller returns   *)
(* them in; a created record is appended.                                  *)
(*                                                                         *)
(* quants, moves and log are the committed tables, last the last response, *)
(* left the number of requests still served one after the other, and txs   *)
(* the requests being served at the same time, each in its own database    *)
(* transaction; run is one invocation followed through the passes of its   *)
(* loops.                                                                  *)
(***************************************************************************)
EXTENDS Integers, Sequences, FiniteSets, TLC

VARIABLES quants, moves, log, last, left, txs, run, tokens

vars == <<quants, moves, log, last, left, txs, run, tokens>>

(* ------------------------------ bounds --------------------------------- *)

\* largest on-hand of a ledger row in the initial state
MaxQty == 2
\* largest quantity a transfer or adjust request carries
MaxReq == 3
\* number of requests a behaviour serves from a ledger of full rows
MaxOps == 2
\* largest counted quantity an adjust may reach in the model
MaxCount == 3
\* largest quantity an adjust request carries
MaxAdj == 2
\* number of reserving moves in the initial state
MaxMoves == 1
\* the reservations a row may hold in the ledgers of ReservedSpec
MaxLines == 3

(* --------------------------- the catalogue ----------------------------- *)

\* stock.location ids; location 2 is a child (shelf) of location 1
Locations == {1, 2, 3}

ParentOf(l) == IF l = 2 THEN 1 ELSE 0

\* ('location_id', 'child_of', l): l and its descendants
Subtree(l) == {x \in Locations : x = l \/ ParentOf(x) = l}

\* stock.warehouse ids that exist, and ids a request may carry
\* (0 stands for a missing field, 9 for an id with no record)
Warehouses == {1, 2}

WarehouseIds == {0, 1, 2, 9}

\* warehouse.lot_stock_id
LotStock(w) == IF w = 1 THEN 1 ELSE 3

\* barcodes a request may carry ("" stands for a missing field)
Barcodes == {"", "P1", "X9"}

\* product.product search by barcode; 0 when no variant matches
ProductOf(barcode) == IF barcode = "P1" THEN 1 ELSE 0

Min(a, b) == IF a < b THEN a ELSE b

Max(a, b) == IF a > b THEN a ELSE b

Abs(a) == IF a < 0 THEN 0 - a ELSE a

(* ------------------------------ the ledger ----------------------------- *)
(* A stock.quant row is [product, loc, quantity, reserved, inv, inv_set]:   *)
(* inv is inventory_quantity as the ORM reads it (0 when nothing was        *)
(* stored) and inv_set tells whether a counted value was stored.            *)

\* stock.quant.available_quantity = quantity - reserved_quantity
Available(r) == r.quantity - r.reserved

\* search([('product_id', '=', p), ('location_id', 'in', locs)]): the ids
\* (indices) of the matching rows, in id order
RECURSIVE SearchFrom(_, _, _, _)
SearchFrom(qs, p, locs, i) ==
    IF i > Len(qs) THEN << >>
    ELSE IF qs[i].product = p /\ qs[i].loc \in locs
         THEN <<i>> \o SearchFrom(qs, p, locs, i + 1)
         ELSE SearchFrom(qs, p, locs, i + 1)

Search(qs, p, locs) == SearchFrom(qs, p, locs, 1)

RECURSIVE SumOver(_, _, _)
SumOver(qs, idx, k) ==
    IF k > Len(idx) THEN 0 ELSE qs[idx[k]].quantity + SumOver(qs, idx, k + 1)

RECURSIVE SumAvailOver(_, _, _)
SumAvailOver(qs, idx, k) ==
    IF k > Len(idx) THEN 0 ELSE Available(qs[idx[k]]) + SumAvailOver(qs, idx, k + 1)

\* sum(quants.mapped('quantity')) over the subtree of location l
OnHand(qs, p, l) == SumOver(qs, Search(qs, p, Subtree(l)), 1)

\* sum(q.available_quantity for q in quants) over the subtree of location l
AvailableQty(qs, p, l) == SumAvailOver(qs, Search(qs, p, Subtree(l)), 1)

\* the reserved_quantity of every row at location l changes by d, whatever
\* the row's product
RECURSIVE AddReservedAnyProduct(_, _, _, _)
AddReservedAnyProduct(qs, p, l, d) ==
    IF qs = << >> THEN << >>
    ELSE <<IF Head(qs).loc = l
           THEN [Head(qs) EXCEPT !.reserved = @ + d]
           ELSE Head(qs)>> \o AddReservedAnyProduct(Tail(qs), p, l, d)

\* the reserved_quantity of the rows of product p at location l changes by d
\* (what writing or unlinking a move line does to its quant)
RECURSIVE AddReserved(_, _, _, _)
AddReserved(qs, p, l, d) ==
    IF qs = << >> THEN << >>
    ELSE <<IF Head(qs).product = p /\ Head(qs).loc = l
           THEN [Head(qs) EXCEPT !.reserved = @ + d]
           ELSE Head(qs)>> \o AddReserved(Tail(qs), p, l, d)

(* --------------------------- reservations ------------------------------ *)
(* A stock.move is [product, loc, lines]: loc is the move's location_id    *)
(* and lines are its stock.move.line records [loc, qty], qty being the     *)
(* reserved quantity the line holds on the quant at line.loc.  A move      *)
(* whose lines are all unlinked, and a cancelled move, hold nothing and    *)
(* are dropped from the sequence.                                          *)

\* the move lines of product p with location in locs and reserved > 0, in
\* id order, as [m, k, qty]: line k of move m (lines 497-512).  hasRes is
\* hasattr(ml, 'reserved_uom_qty') or hasattr(ml, 'reserved_qty'): without
\* either field no line counts as reserving.
RECURSIVE LinesFrom(_, _, _, _, _)
LinesFrom(ms, p, locs, m, k) ==
    IF m > Len(ms) THEN << >>
    ELSE IF k > Len(ms[m].lines) THEN LinesFrom(ms, p, locs, m + 1, 1)
    ELSE IF ms[m].product = p /\ ms[m].lines[k].loc \in locs /\ ms[m].lines[k].qty > 0
         THEN <<[m |-> m, k |-> k, qty |-> ms[m].lines[k].qty]>>
                  \o LinesFrom(ms, p, locs, m, k + 1)
         ELSE LinesFrom(ms, p, locs, m, k + 1)

MoveLinesWithReserved(ms, p, locs, hasRes) ==
    IF hasRes THEN LinesFrom(ms, p, locs, 1, 1) ELSE << >>

\* position of the first largest qty of a non-empty sequence
FirstMax(s) ==
    CHOOSE i \in 1..Len(s) :
        /\ \A j \in 1..Len(s) : s[j].qty <= s[i].qty
        /\ \A j \in 1..(i - 1) : s[j].qty < s[i].qty

RemoveAt(s, i) == SubSeq(s, 1, i - 1) \o SubSeq(s, i + 1, Len(s))

\* the lines taken as the search returned them, in id order
SortAsFound(s) == s

\* move_lines_with_reserved.sort(key=lambda x: x[1], reverse=True): a stable
\* sort, largest reserved first (line 515)
RECURSIVE SortLargestFirst(_)
SortLargestFirst(s) ==
    IF s = << >> THEN << >>
    ELSE LET i == FirstMax(s) IN <<s[i]>> \o SortLargestFirst(RemoveAt(s, i))

\* drop the unlinked (qty 0) lines and the moves left without lines
RECURSIVE KeepLines(_)
KeepLines(ls) ==
    IF ls = << >> THEN << >>
    ELSE IF Head(ls).qty > 0 THEN <<Head(ls)>> \o KeepLines(Tail(ls))
    ELSE KeepLines(Tail(ls))

RECURSIVE Purge(_)
Purge(ms) ==
    IF ms = << >> THEN << >>
    ELSE LET ls == KeepLines(Head(ms).lines) IN
         IF ls = << >> THEN Purge(Tail(ms))
         ELSE <<[Head(ms) EXCEPT !.lines = ls]>> \o Purge(Tail(ms))

\* What the repair of a row did, in the order it did it, is kept in st.tr as
\* events [tier, row, reserved, amount, remaining]: "negative" (line 487, the
\* row's deficit in remaining), "reduce_tier" (line 518 reached), "reduce"
\* (one pass of the loop of lines 519-536), "release_tier" (line 543 taken),
\* "raise" (the try block left by an exception) and "floor" (the row's
\* on-hand raised by amount).
RepairEvent(tier, row, reserved, amount, remaining) ==
    [tier |-> tier, row |-> row, reserved |-> reserved, amount |-> amount,
     remaining |-> remaining]

\* the loop of lines 518-536 over the sorted lines from position k on: each
\* line gives up min(its reserved, remaining_to_reduce), its quant's
\* reserved_quantity following the line
RECURSIVE ReduceLoop(_, _, _, _, _)
ReduceLoop(st, p, lines, k, remaining) ==
    IF k > Len(lines) \/ remaining <= 0 THEN st
    ELSE LET ln == lines[k]
             reduce_amount == Min(ln.qty, remaining)
             lloc == st.m[ln.m].lines[ln.k].loc
             st2 == [st EXCEPT
                        !.m[ln.m].lines[ln.k].qty = ln.qty - reduce_amount,
                        !.q = AddReserved(st.q, p, lloc, 0 - reduce_amount),
                        !.tr = Append(@, RepairEvent("reduce", 0, ln.qty, reduce_amount,
                                                     remaining))]
         IN ReduceLoop(st2, p, lines, k + 1, remaining - reduce_amount)

\* the ids of the moves of product p whose location_id is in locs (lines
\* 547-551; every move the model keeps is in one of the searched states)
RECURSIVE MovesFrom(_, _, _, _)
MovesFrom(ms, p, locs, m) ==
    IF m > Len(ms) THEN << >>
    ELSE IF ms[m].product = p /\ ms[m].loc \in locs
         THEN <<m>> \o MovesFrom(ms, p, locs, m + 1)
         ELSE MovesFrom(ms, p, locs, m + 1)

\* move._action_cancel(): every line of the move releases what it reserves
RECURSIVE Unreserve(_, _, _, _)
Unreserve(qs, p, ls, k) ==
    IF k > Len(ls) THEN qs
    ELSE Unreserve(AddReserved(qs, p, ls[k].loc, 0 - ls[k].qty), p, ls, k + 1)

\* the loop of lines 553-567 for the quant with id i: cancel the moves one
\* by one until the quant's available is no longer negative; a cancel that
\* raises is passed over (cancelFails: every _action_cancel raises)
RECURSIVE CancelLoop(_, _, _, _, _, _)
CancelLoop(st, p, i, mids, k, cancelFails) ==
    IF k > Len(mids) THEN st
    ELSE IF cancelFails THEN CancelLoop(st, p, i, mids, k + 1, cancelFails)
    ELSE LET mv == st.m[mids[k]]
             st2 == [st EXCEPT !.q = Unreserve(st.q, p, mv.lines, 1),
                               !.m[mids[k]].lines = << >>]
         IN IF Available(st2.q[i]) >= 0 THEN st2
            ELSE CancelLoop(st2, p, i, mids, k + 1, cancelFails)

\* the repair chain without its last tier: a row still negative after the
\* moves were cancelled is left as it is
FloorFallbackOmitted(st, i) == st

\* quant.quantity = quant.quantity + abs(final_available) when the quant's
\* available is still negative (lines 570-574, 578-582): the floor fallback,
\* st.fb adding up what it puts on hand
FloorFallback(st, i) ==
    LET final_available == Available(st.q[i]) IN
    IF final_available < 0
    THEN [st EXCEPT !.q[i].quantity = @ + Abs(final_available),
                    !.fb = @ + Abs(final_available),
                    !.tr = Append(@, RepairEvent("floor", i, 0, Abs(final_available), 0))]
    ELSE st

\* the distribution of a reservation of `take` over the rows idx[k..], in id
\* order, each giving min(its available, what is still needed)
RECURSIVE ReserveLines(_, _, _, _)
ReserveLines(qs, idx, k, take) ==
    IF k > Len(idx) \/ take <= 0 THEN << >>
    ELSE LET a == Available(qs[idx[k]])
             t == IF a > 0 THEN Min(a, take) ELSE 0
         IN IF t > 0
            THEN <<[i |-> idx[k], loc |-> qs[idx[k]].loc, qty |-> t]>>
                     \o ReserveLines(qs, idx, k + 1, take - t)
            ELSE ReserveLines(qs, idx, k + 1, take)

\* the stock.move.line records of a distribution
RECURSIVE MoveLines(_)
MoveLines(ls) ==
    IF ls = << >> THEN << >>
    ELSE <<[loc |-> Head(ls).loc, qty |-> Head(ls).qty]>> \o MoveLines(Tail(ls))

RECURSIVE ApplyLines(_, _, _)
ApplyLines(qs, ls, k) ==
    IF k > Len(ls) THEN qs
    ELSE ApplyLines([qs EXCEPT ![ls[k].i].reserved = @ + ls[k].qty], ls, k + 1)

\* picking + move of `need` at location l, action_confirm(), action_assign()
\* (lines 606-625, 661-681, 741-761): the move reserves min(need, available
\* of the subtree of l) on the subtree's quants
Reserve(st, p, l, need) ==
    LET idx == Search(st.q, p, Subtree(l))
        total == SumAvailOver(st.q, idx, 1)
        take == IF total > 0 THEN Min(need, total) ELSE 0
        ls == ReserveLines(st.q, idx, 1, take)
    IN IF ls = << >> THEN st
       ELSE [st EXCEPT !.q = ApplyLines(st.q, ls, 1),
                       !.m = Append(st.m, [product |-> p, loc |-> l, lines |-> MoveLines(ls)])]

(* ----------------------------- the transfer ---------------------------- *)

\* the subtraction without the min(): the first source row gives the whole
\* quantity, whatever it holds
SubtractLoopUnclamped(qs, idx, k, remaining_to_subtract) ==
    IF idx = << >> THEN qs
    ELSE [qs EXCEPT ![idx[1]].quantity = @ - remaining_to_subtract]

\* the subtraction without the carry: the first source row gives what it
\* holds and the rest of the quantity is taken from no row
SubtractLoopFirstRow(qs, idx, k, remaining_to_subtract) ==
    IF idx = << >> THEN qs
    ELSE [qs EXCEPT ![idx[1]].quantity = @ - Min(Max(@, 0), remaining_to_subtract)]

\* the loop of lines 463-473 over the source rows idx[k..]: each row with
\* quantity > 0 gives min(its quantity, remaining_to_subtract)
RECURSIVE SubtractLoop(_, _, _, _)
SubtractLoop(qs, idx, k, remaining_to_subtract) ==
    IF k > Len(idx) \/ remaining_to_subtract <= 0 THEN qs
    ELSE LET current_qty == qs[idx[k]].quantity IN
         IF current_qty > 0
         THEN LET subtract_amount == Min(current_qty, remaining_to_subtract) IN
              SubtractLoop([qs EXCEPT ![idx[k]].quantity = current_qty - subtract_amount],
                           idx, k + 1, remaining_to_subtract - subtract_amount)
         ELSE SubtractLoop(qs, idx, k + 1, remaining_to_subtract)

\* lines 487-582 for the quant with id i whose available is negative: reduce
\* the reserved move lines of the quant's subtree, then cancel moves, then
\* floor; f.repair is an exception raised in the try block before it has
\* written anything, which the except branch answers with the floor alone
RepairNegative(st, p, i, f, hasRes) ==
    LET locs == Subtree(st.q[i].loc)
        excess_reserved == Abs(Available(st.q[i]))
        found == [st EXCEPT !.tr = Append(@, RepairEvent("negative", i, 0, 0,
                                                         excess_reserved))]
    IN IF f.repair
       THEN FloorFallback([found EXCEPT !.tr = Append(@, RepairEvent("raise", i, 0, 0, 0))], i)
       ELSE LET lines == SortLargestFirst(MoveLinesWithReserved(st.m, p, locs, hasRes))
                entered == [found EXCEPT
                               !.tr = Append(@, RepairEvent("reduce_tier", i, 0, 0,
                                                            excess_reserved))]
                reduced == ReduceLoop(entered, p, lines, 1, excess_reserved)
            IN IF Available(reduced.q[i]) < 0
               THEN LET release == [reduced EXCEPT
                                       !.tr = Append(@, RepairEvent("release_tier", i, 0, 0,
                                                        Abs(Available(reduced.q[i]))))]
                    IN FloorFallback(
                           CancelLoop(release, p, i, MovesFrom(release.m, p, locs, 1), 1,
                                      f.cancel),
                           i)
               ELSE reduced

\* lines 591-633 for the quant with id i: a transfer beyond the available
\* reserves what is left available on the row; f.reserveSrc is no picking
\* type being found or the creation raising, both of which leave the row as
\* it is
ReserveRemaining(st, p, i, additional_to_add, f) ==
    LET final_available_check == Available(st.q[i]) IN
    IF additional_to_add > 0 /\ final_available_check > 0 /\ ~f.reserveSrc
    THEN Reserve(st, p, st.q[i].loc, final_available_check)
    ELSE st

\* lines 639-693 for the quant with id i: a row still negative gets a
\* reservation of the excess, or, when that cannot be created, the excess
\* added to its quantity
ReserveExcess(st, p, i, f) ==
    LET final_available_check == Available(st.q[i])
        excess_to_reserve == Abs(final_available_check)
    IN IF final_available_check < 0
       THEN IF f.reserveSrc
            THEN [st EXCEPT !.q[i].quantity = @ + excess_to_reserve,
                            !.fb = @ + excess_to_reserve,
                            !.tr = Append(@, RepairEvent("floor", i, 0, excess_to_reserve, 0))]
            ELSE Reserve(st, p, st.q[i].loc, excess_to_reserve)
       ELSE st

\* the transfer without the loop of lines 482-693: the rows are left as the
\* subtraction made them
RepairRowOmitted(st, p, i, additional_to_add, f, hasRes) == st

\* the body of the loop of lines 482-693 for the quant with id i
RepairRow(st, p, i, additional_to_add, f, hasRes) ==
    LET s1 == IF Available(st.q[i]) < 0 THEN RepairNegative(st, p, i, f, hasRes) ELSE st
        s2 == ReserveRemaining(s1, p, i, additional_to_add, f)
        s3 == ReserveExcess(s2, p, i, f)
    IN [s3 EXCEPT !.m = Purge(s3.m)]

RECURSIVE RepairLoop(_, _, _, _, _, _, _)
RepairLoop(st, p, idx, k, additional_to_add, f, hasRes) ==
    IF k > Len(idx) THEN st
    ELSE RepairLoop(RepairRow(st, p, idx[k], additional_to_add, f, hasRes),
                    p, idx, k + 1, additional_to_add, f, hasRes)

\* the destination row created whether or not the location has one
AddToDestinationAlwaysCreate(qs, p, l, quantity_float) ==
    Append(qs, [product |-> p, loc |-> l, quantity |-> quantity_float,
                reserved |-> 0, inv |-> 0, inv_set |-> FALSE])

\* the destination row written with the quantity instead of raised by it
AddToDestinationOverwrite(qs, p, l, quantity_float) ==
    LET found == Search(qs, p, {l}) IN
    IF found # << >>
    THEN [qs EXCEPT ![found[1]].quantity = quantity_float]
    ELSE Append(qs, [product |-> p, loc |-> l, quantity |-> quantity_float,
                     reserved |-> 0, inv |-> 0, inv_set |-> FALSE])

\* lines 704-720: the destination row, searched at the exact location with
\* limit=1, gets the full quantity; without a row one is created
AddToDestination(qs, p, l, quantity_float) ==
    LET found == Search(qs, p, {l}) IN
    IF found # << >>
    THEN [qs EXCEPT ![found[1]].quantity = @ + quantity_float]
    ELSE Append(qs, [product |-> p, loc |-> l, quantity |-> quantity_float,
                     reserved |-> 0, inv |-> 0, inv_set |-> FALSE])

\* lines 724-767: the part transferred beyond the available is reserved at
\* the destination; f.reserveDst is no picking type being found or the
\* creation raising, which is logged and otherwise ignored
ReserveAdditional(st, p, l, additional_to_add, f) ==
    IF additional_to_add > 0 /\ ~f.reserveDst
    THEN LET r == Reserve(st, p, l, additional_to_add) IN [r EXCEPT !.m = Purge(r.m)]
    ELSE st

\* abs() in place of max(0, .): a transfer below the available counts the
\* difference as transferred beyond it
AdditionalToAddAbs(available_qty, quantity_float) == Abs(quantity_float - available_qty)

\* the whole quantity counted as transferred from the available
AvailableToTransferAll(available_qty, quantity_float) == quantity_float

\* lines 452-453
AvailableToTransfer(available_qty, quantity_float) == Min(available_qty, quantity_float)

AdditionalToAdd(available_qty, quantity_float) == Max(0, quantity_float - available_qty)

\* lines 463-693: the source side of a transfer, the subtraction and the
\* repair of the source rows
TransferSource(qs, ms, p, src, quantity_float, f, hasRes) ==
    LET idx == Search(qs, p, Subtree(src))
        additional_to_add == AdditionalToAdd(AvailableQty(qs, p, src), quantity_float)
        subtracted == SubtractLoop(qs, idx, 1, quantity_float)
    IN RepairLoop([q |-> subtracted, m |-> ms, fb |-> 0, tr |-> << >>],
                  p, idx, 1, additional_to_add, f, hasRes)

\* lines 704-767: the destination side of a transfer, from what the source
\* side left (repaired): the row written or created, and the reservation of
\* the part beyond the available
TransferDestination(repaired, p, dst, quantity_float, additional_to_add, f) ==
    ReserveAdditional([repaired EXCEPT
                          !.q = AddToDestination(repaired.q, p, dst, quantity_float)],
                      p, dst, additional_to_add, f)

(* ----------------------------- the audit log --------------------------- *)

\* the direction with the negative deltas looked at first
DirectionDecreaseFirst(on_hand_before, on_hand_after, available_before, available_after) ==
    LET delta_on_hand == on_hand_after - on_hand_before
        delta_available == available_after - available_before
    IN IF delta_on_hand < 0 \/ delta_available < 0 THEN "decrease"
       ELSE IF delta_on_hand > 0 \/ delta_available > 0 THEN "increase"
       ELSE "neutral"

\* the direction taken from the on-hand alone
DirectionOfOnHand(on_hand_before, on_hand_after, available_before, available_after) ==
    IF on_hand_after > on_hand_before THEN "increase"
    ELSE IF on_hand_after < on_hand_before THEN "decrease"
    ELSE "neutral"

\* StockQuantChange._compute_deltas: the direction of an entry
Direction(on_hand_before, on_hand_after, available_before, available_after) ==
    LET delta_on_hand == on_hand_after - on_hand_before
        delta_available == available_after - available_before
    IN IF delta_on_hand > 0 \/ delta_available > 0 THEN "increase"
       ELSE IF delta_on_hand < 0 \/ delta_available < 0 THEN "decrease"
       ELSE "neutral"

\* the id of the first row of product p at the exact location l, 0 for none
QuantIdAt(qs, p, l) ==
    LET found == Search(qs, p, {l}) IN IF found = << >> THEN 0 ELSE found[1]

\* _log_quant_change: the stock.quant.change record created from vals, its
\* stored deltas and direction computed on create
ChangeEntry(quant, p, l, change_type, ohb, oha, avb, ava, from, to) ==
    [quant_id |-> quant, product_id |-> p, location_id |-> l,
     change_type |-> change_type,
     on_hand_before |-> ohb, on_hand_after |-> oha,
     available_before |-> avb, available_after |-> ava,
     delta_on_hand |-> oha - ohb, delta_available |-> ava - avb,
     direction |-> Direction(ohb, oha, avb, ava),
     location_from_id |-> from, location_to_id |-> to]

\* the entry kept once for each quant and change type: an entry of the same
\* quant and type is overwritten instead of a new one being added
LogQuantChangeUpsert(lg, entry, fails) ==
    IF fails THEN lg
    ELSE IF \E k \in 1..Len(lg) : lg[k].quant_id = entry.quant_id
                                   /\ lg[k].change_type = entry.change_type
         THEN LET k == CHOOSE j \in 1..Len(lg) : lg[j].quant_id = entry.quant_id
                                                 /\ lg[j].change_type = entry.change_type
              IN [lg EXCEPT ![k] = entry]
         ELSE Append(lg, entry)

\* _log_quant_change (lines 93-120): the entry is created; a creation that
\* raises (fails) is logged as a warning and otherwise ignored
LogQuantChange(lg, entry, fails) == IF fails THEN lg ELSE Append(lg, entry)

\* the failures of the audit log's creations during one transfer
LogFaults == [source : BOOLEAN, destination : BOOLEAN]

\* The model lets the audit log's creations fail in the last request a
\* behaviour serves (budget = 1) when every other call of the request
\* succeeds (f = NoFault), and has them succeed elsewhere: the creations
\* come after the ledger is written and read nothing a failed call changes.
LogFaultsAt(budget, f) ==
    {lf \in LogFaults :
        (lf.source \/ lf.destination) =>
            budget = 1 /\ \A k \in DOMAIN f : ~f[k]}

(* ----------------------------- the requests ---------------------------- *)

\* the quantity field of a request body: absent, or a number
Quantities(lo, hi) ==
    {[given |-> FALSE, v |-> 0]} \cup {[given |-> TRUE, v |-> n] : n \in lo..hi}

\* what a fault of the environment does to one transfer: the repair's try
\* block raises, every _action_cancel raises, the source-side and the
\* destination-side reservation cannot be created
Faults == [repair : BOOLEAN, cancel : BOOLEAN, reserveSrc : BOOLEAN, reserveDst : BOOLEAN]

NoFault == [repair |-> FALSE, cancel |-> FALSE, reserveSrc |-> FALSE, reserveDst |-> FALSE]

\* the body of a request: the fields of a transfer, and of an adjust
TransferRequest(barcode, source_warehouse_id, destination_warehouse_id, quantity) ==
    [barcode |-> barcode, source_warehouse_id |-> source_warehouse_id,
     destination_warehouse_id |-> destination_warehouse_id,
     warehouse_id |-> 0, operation |-> "", quantity |-> quantity]

AdjustRequest(barcode, warehouse_id, operation, quantity) ==
    [barcode |-> barcode, source_warehouse_id |-> 0, destination_warehouse_id |-> 0,
     warehouse_id |-> warehouse_id, operation |-> operation, quantity |-> quantity]

\* the last request served and its result, as the handler computed it
NoResult ==
    [op |-> "none", request |-> TransferRequest("", 0, 0, [given |-> FALSE, v |-> 0]),
     ok |-> FALSE, status |-> 0, error |-> "",
     product |-> 0, src |-> 0, dst |-> 0, quantity |-> 0,
     available_to_transfer |-> 0, additional_to_add |-> 0,
     source_qty_before |-> 0, source_qty_after |-> 0,
     source_available_before |-> 0, source_available_after |-> 0,
     destination_qty_before |-> 0, destination_qty_after |-> 0,
     destination_available_before |-> 0, dest_available_after |-> 0,
     fallback |-> 0, repairs |-> << >>, audit_failed |-> 0, operation |-> "",
     query |-> [sku |-> "", warehouse_id |-> 0, store_id |-> 0], variants |-> << >>,
     previous_counted_quantity |-> 0, new_counted_quantity |-> 0]

Rejected(op, request, status, error) ==
    [NoResult EXCEPT !.op = op, !.request = request, !.status = status, !.error = error]

\* the failure of an audit creation leaving the handler as an exception: the
\* request is answered by the handler's last except branch (status 500)
AfterAuditRaising(result, failed) ==
    IF failed > 0
    THEN [result EXCEPT !.ok = FALSE, !.status = 500, !.error = "Internal error",
                        !.audit_failed = failed]
    ELSE [result EXCEPT !.audit_failed = failed]

\* _log_quant_change's except branch (lines 119-120): the handler goes on to
\* its response whatever number of audit creations failed
AfterAudit(result, failed) == [result EXCEPT !.audit_failed = failed]

\* the quantity check of an invalid request that a strict comparison would
\* let through: only a negative quantity is refused, a zero one is served
InvalidQuantityNegativeOnly(quantity) == ~quantity.given \/ quantity.v < 0

\* `not quantity or float(quantity) <= 0` (line 353)
InvalidQuantity(quantity) == ~quantity.given \/ quantity.v <= 0

\* the sufficiency check made against the available quantity of the source
\* rows instead of their on-hand quantity
StockErrorOnAvailable(qs, p, l, quantity_float) ==
    IF AvailableQty(qs, p, l) < quantity_float THEN "Insufficient stock"
    ELSE IF OnHand(qs, p, l) <= 0 THEN "No stock"
    ELSE ""

\* lines 401-428: the on-hand quantity of the source rows against the
\* requested quantity
StockError(qs, p, l, quantity_float) ==
    LET on_hand_qty == OnHand(qs, p, l) IN
    IF on_hand_qty < quantity_float THEN "Insufficient stock"
    ELSE IF on_hand_qty <= 0 THEN "No stock"
    ELSE ""

\* lines 331-428: the error a transfer request is answered with, "" when it
\* is accepted
TransferError(qs, barcode, source_warehouse_id, destination_warehouse_id, quantity) ==
    IF barcode = "" THEN "Missing barcode"
    ELSE IF source_warehouse_id = 0 THEN "Missing source_warehouse_id"
    ELSE IF destination_warehouse_id = 0 THEN "Missing destination_warehouse_id"
    ELSE IF InvalidQuantity(quantity) THEN "Invalid quantity"
    ELSE IF ProductOf(barcode) = 0 THEN "Product not found"
    ELSE IF source_warehouse_id \notin Warehouses THEN "Source warehouse not found"
    ELSE IF destination_warehouse_id \notin Warehouses THEN "Destination warehouse not found"
    ELSE IF source_warehouse_id = destination_warehouse_id THEN "Same warehouse"
    ELSE StockError(qs, ProductOf(barcode), LotStock(source_warehouse_id), quantity.v)

\* the HTTP status _json_response is given with each error
StatusOf(error) ==
    IF error \in {"Product not found", "Source warehouse not found",
                  "Destination warehouse not found", "Warehouse not found"}
    THEN 404 ELSE 400

\* the response to a rejected transfer; an Insufficient stock response
\* carries the on-hand quantity and the requested quantity (lines 414-420)
TransferRejection(qs, request, error) ==
    IF error = "Insufficient stock"
    THEN [Rejected("transfer", request, StatusOf(error), error) EXCEPT
             !.quantity = request.quantity.v,
             !.source_qty_before =
                 OnHand(qs, ProductOf(request.barcode), LotStock(request.source_warehouse_id))]
    ELSE Rejected("transfer", request, StatusOf(error), error)

\* Of the requests one check rejects, the model serves those whose other
\* fields are plain valid ones: neither the response nor the state depends on
\* a field the rejecting check does not read.
TransferRejectionReads(error) ==
    IF error \in {"Missing barcode", "Product not found"} THEN {"barcode"}
    ELSE IF error \in {"Missing source_warehouse_id", "Source warehouse not found"}
         THEN {"source"}
    ELSE IF error \in {"Missing destination_warehouse_id", "Destination warehouse not found"}
         THEN {"destination"}
    ELSE IF error = "Invalid quantity" THEN {"quantity"}
    ELSE IF error = "Same warehouse" THEN {"source", "destination"}
    ELSE {"source", "quantity"}

PlainTransferFields(barcode, source_warehouse_id, destination_warehouse_id, quantity, reads) ==
    /\ "barcode" \notin reads => barcode = "P1"
    /\ "source" \notin reads => source_warehouse_id = 1
    /\ "destination" \notin reads =>
           destination_warehouse_id = (IF source_warehouse_id = 2 THEN 1 ELSE 2)
    /\ "quantity" \notin reads => quantity = [given |-> TRUE, v |-> 1]

\* transfer_inventory, a request that is rejected: the response alone
TransferRejected(barcode, source_warehouse_id, destination_warehouse_id, quantity) ==
    \E error \in {TransferError(quants, barcode, source_warehouse_id,
                                destination_warehouse_id, quantity)} :
        /\ error # ""
        /\ PlainTransferFields(barcode, source_warehouse_id, destination_warehouse_id,
                               quantity, TransferRejectionReads(error))
        /\ last' = TransferRejection(quants,
                       TransferRequest(barcode, source_warehouse_id,
                                       destination_warehouse_id, quantity), error)
        /\ UNCHANGED <<quants, moves, log>>

\* The fault choices [f, hasRes] that differ for this transfer: a call that
\* is not made cannot fail.  The repair's try block is entered only for a row
\* left with a negative available by the subtraction (where alone the move
\* lines' fields and _action_cancel are used), and a reservation is created
\* only when the transfer goes beyond the available.
FaultChoices(qs, p, src, quantity_float) ==
    LET idx == Search(qs, p, Subtree(src))
        subtracted == SubtractLoop(qs, idx, 1, quantity_float)
        negative == \E k \in 1..Len(idx) : Available(subtracted[idx[k]]) < 0
        over == AdditionalToAdd(AvailableQty(qs, p, src), quantity_float) > 0
    IN {c \in [f : Faults, hasRes : BOOLEAN] :
           /\ c.f.repair => negative
           /\ c.f.cancel => negative /\ ~c.f.repair
           /\ ~c.hasRes => negative /\ ~c.f.repair
           /\ c.f.reserveSrc => over
           /\ c.f.reserveDst => over}

\* lines 397-850 for an accepted request: the ledger (q), the reservations
\* (m), both as the source side alone left them (kept), the two audit
\* entries and the response
TransferOutcome(qs, ms, barcode, source_warehouse_id, destination_warehouse_id, quantity, f, hasRes) ==
    LET variant == ProductOf(barcode)
        source_location == LotStock(source_warehouse_id)
        destination_location == LotStock(destination_warehouse_id)
        quantity_float == quantity.v
        on_hand_qty == OnHand(qs, variant, source_location)
        available_qty == AvailableQty(qs, variant, source_location)
        destination_qty_before == OnHand(qs, variant, destination_location)
        destination_available_before == AvailableQty(qs, variant, destination_location)
        available_to_transfer == AvailableToTransfer(available_qty, quantity_float)
        additional_to_add == AdditionalToAdd(available_qty, quantity_float)
        kept == TransferSource(qs, ms, variant, source_location, quantity_float, f, hasRes)
        done == TransferDestination(kept, variant, destination_location, quantity_float,
                                    additional_to_add, f)
        source_qty_after == OnHand(done.q, variant, source_location)
        source_available_after == AvailableQty(done.q, variant, source_location)
        destination_qty_after == OnHand(done.q, variant, destination_location)
        dest_available_after == AvailableQty(done.q, variant, destination_location)
        source_entry ==
            ChangeEntry(QuantIdAt(done.q, variant, source_location), variant, source_location,
                        "transfer", on_hand_qty, source_qty_after,
                        available_qty, source_available_after,
                        source_location, destination_location)
        dest_entry ==
            ChangeEntry(QuantIdAt(done.q, variant, destination_location), variant,
                        destination_location, "transfer",
                        destination_qty_before, destination_qty_after,
                        destination_available_before, dest_available_after,
                        source_location, destination_location)
    IN [q |-> done.q, m |-> done.m, kept |-> kept, entries |-> <<source_entry, dest_entry>>,
        result |-> [NoResult EXCEPT
                      !.op = "transfer", !.ok = TRUE, !.status = 200,
                      !.request = TransferRequest(barcode, source_warehouse_id,
                                                  destination_warehouse_id, quantity),
                      !.product = variant,
                      !.src = source_location, !.dst = destination_location,
                      !.quantity = quantity_float,
                      !.available_to_transfer = available_to_transfer,
                      !.additional_to_add = additional_to_add,
                      !.source_qty_before = on_hand_qty,
                      !.source_qty_after = source_qty_after,
                      !.source_available_before = available_qty,
                      !.source_available_after = source_available_after,
                      !.destination_qty_before = destination_qty_before,
                      !.destination_qty_after = destination_qty_after,
                      !.destination_available_before = destination_available_before,
                      !.dest_available_after = dest_available_after,
                      !.fallback = done.fb,
                      !.repairs = done.tr]]

\* lines 826-850: the body of the response to an accepted transfer, built
\* from the handler's values (result)
TransferResponse(result) ==
    [success |-> TRUE,
     barcode |-> result.request.barcode,
     quantity |-> result.quantity,
     transfer_details |->
         [available_transferred |-> result.available_to_transfer,
          additional_added |-> result.additional_to_add],
     source_warehouse |->
         [id |-> result.request.source_warehouse_id,
          on_hand_quantity_before |-> result.source_qty_before,
          on_hand_quantity_after |-> result.source_qty_after,
          available_quantity_before |-> result.source_available_before,
          available_quantity_after |-> result.source_available_after],
     destination_warehouse |->
         [id |-> result.request.destination_warehouse_id,
          on_hand_quantity_before |-> result.destination_qty_before,
          on_hand_quantity_after |-> result.destination_qty_after]]

\* transfer_inventory, a request that is accepted, from what lines 397-850
\* compute (out)
TransferAccepted(out, lf) ==
    /\ quants' = out.q
    /\ moves' = out.m
    /\ log' = LogQuantChange(LogQuantChange(log, out.entries[1], lf.source),
                             out.entries[2], lf.destination)
    /\ last' = AfterAudit(out.result,
                    (IF lf.source THEN 1 ELSE 0) + (IF lf.destination THEN 1 ELSE 0))

\* transfer_inventory, an accepted request whose destination step (lines
\* 704-720) raises: the except branch of lines 858-864 logs the exception
\* and answers 500; the handler returns normally and nothing in it undoes
\* what lines 463-693 wrote to the source rows and to the reservations
TransferFailed(out) ==
    /\ quants' = out.kept.q
    /\ moves' = out.kept.m
    /\ log' = log
    /\ last' = [Rejected("transfer", out.result.request, 500, "Internal error") EXCEPT
                    !.product = out.result.product,
                    !.src = out.result.src,
                    !.dst = out.result.dst,
                    !.quantity = out.result.quantity]

(* ------------------------------ the tokens ----------------------------- *)
(* tokens is the api.token table: records [token, active, usage_count,     *)
(* last_used], last_used telling whether a time of use was written.  The   *)
(* headers of a request are [authorization, x_api_token]: authorization is *)
(* [bearer, value], value being what follows "Bearer " with the blanks     *)
(* around it stripped when bearer is TRUE and the stripped header          *)
(* otherwise; "" is the header that is absent or empty.                    *)

Tokens == {"", "T1", "T0", "ZZ"}

\* one active record (T1) and one deactivated (T0); no record holds ZZ
InitialTokens ==
    <<[token |-> "T1", active |-> TRUE, usage_count |-> 0, last_used |-> FALSE],
      [token |-> "T0", active |-> FALSE, usage_count |-> 0, last_used |-> FALSE]>>

Headers ==
    [authorization : [bearer : BOOLEAN, value : Tokens], x_api_token : Tokens \ {"ZZ"}]

\* the headers of a request that carries the active token as a bearer token
ActiveHeaders == [authorization |-> [bearer |-> TRUE, value |-> "T1"], x_api_token |-> ""]

\* _validate_token, lines 48-55: the token of "Bearer <token>", otherwise the
\* X-API-Token header or, when that is empty, the Authorization header
TokenOf(headers) ==
    IF headers.authorization.bearer THEN headers.authorization.value
    ELSE IF headers.x_api_token # "" THEN headers.x_api_token
    ELSE headers.authorization.value

\* the search without ('active', '=', True): any record of the token
ValidateTokenOfAnyRecord(tks, token) ==
    IF token = "" THEN 0
    ELSE IF \E k \in 1..Len(tks) : tks[k].token = token
         THEN CHOOSE k \in 1..Len(tks) : tks[k].token = token
         ELSE 0

\* ApiToken.validate_token (api_token.py lines 39-53): the id of the active
\* record of the token, 0 (False) when the token is empty or has none
ValidateToken(tks, token) ==
    IF token = "" THEN 0
    ELSE IF \E k \in 1..Len(tks) : tks[k].token = token /\ tks[k].active
         THEN CHOOSE k \in 1..Len(tks) : tks[k].token = token /\ tks[k].active
         ELSE 0

\* ApiToken._update_usage (api_token.py lines 32-37)
UpdateUsage(tks, k) ==
    [tks EXCEPT ![k].usage_count = @ + 1, ![k].last_used = TRUE]

\* the error of _validate_token: "" when the token is that of an active record
TokenError(tks, headers) ==
    IF TokenOf(headers) = "" THEN "Missing API token"
    ELSE IF ValidateToken(tks, TokenOf(headers)) = 0 THEN "Invalid API token"
    ELSE ""

\* _validate_token passes (lines 66-75): the record's usage is written and
\* the handler goes on
Authorize(headers) ==
    /\ TokenError(tokens, headers) = ""
    /\ tokens' = UpdateUsage(tokens, ValidateToken(tokens, TokenOf(headers)))

\* _validate_token fails and the handler returns its 401 response (lines
\* 57-62, 68-73 and 308-310, 884-886) before it parses the body
Unauthorized(op, headers) ==
    /\ left > 0
    /\ left' = left - 1
    /\ TokenError(tokens, headers) # ""
    /\ last' = Rejected(op, NoResult.request, 401, TokenError(tokens, headers))
    /\ UNCHANGED <<quants, moves, log, txs, run, tokens>>

\* transfer_inventory from line 312 on: the request whose token passed
TransferServed ==
    /\ left > 0
    /\ left' = left - 1
    /\ UNCHANGED <<txs, run>>
    /\ \E barcode \in Barcodes, source_warehouse_id \in WarehouseIds,
          destination_warehouse_id \in WarehouseIds, quantity \in Quantities(-1, MaxReq) :
          \/ TransferRejected(barcode, source_warehouse_id, destination_warehouse_id, quantity)
          \/ /\ TransferError(quants, barcode, source_warehouse_id,
                               destination_warehouse_id, quantity) = ""
             /\ \E c \in FaultChoices(quants, ProductOf(barcode),
                                       LotStock(source_warehouse_id), quantity.v) :
                \E out \in {TransferOutcome(quants, moves, barcode, source_warehouse_id,
                                            destination_warehouse_id, quantity,
                                            c.f, c.hasRes)} :
                   \/ \E lf \in LogFaultsAt(left, c.f) : TransferAccepted(out, lf)
                   \/ ~c.f.reserveDst /\ TransferFailed(out)

(* ---------------------------- the adjustment --------------------------- *)

Operations == {"set", "add", "subtract", "recount"}

\* `quant.inventory_quantity is not None`: an Odoo Float field reads as a
\* number (0.0 when nothing was stored), never as None
IsNone(inventory_quantity) == FALSE

\* lines 961-979: the counted quantity the adjustment starts from
CurrentCountedQuantity(qs, p, l) ==
    LET quant == Search(qs, p, {l}) IN
    IF quant # << >> /\ ~IsNone(qs[quant[1]].inv) THEN qs[quant[1]].inv
    ELSE IF quant # << >> THEN qs[quant[1]].quantity
    ELSE OnHand(qs, p, l)

\* an add that forgets the current counted quantity
TargetInventoryQuantityFromNothing(operation, current_counted_quantity, quantity_float) ==
    IF operation = "set" THEN quantity_float
    ELSE IF operation = "add" THEN quantity_float
    ELSE current_counted_quantity - quantity_float

\* lines 981-987
TargetInventoryQuantity(operation, current_counted_quantity, quantity_float) ==
    IF operation = "set" THEN quantity_float
    ELSE IF operation = "add" THEN current_counted_quantity + quantity_float
    ELSE current_counted_quantity - quantity_float

\* a subtraction down to zero refused like one below zero
SubtractRefusedAtZero(target_inventory_quantity) == target_inventory_quantity <= 0

\* `if target_inventory_quantity < 0` (line 988)
SubtractRefused(target_inventory_quantity) == target_inventory_quantity < 0

\* lines 907-995: the error an adjust request is answered with, "" when it is
\* accepted
AdjustError(qs, barcode, warehouse_id, operation, quantity) ==
    IF barcode = "" THEN "Missing barcode"
    ELSE IF warehouse_id = 0 THEN "Missing warehouse_id"
    ELSE IF operation \notin {"set", "add", "subtract"} THEN "Invalid operation"
    ELSE IF ~quantity.given THEN "Missing quantity"
    ELSE IF ProductOf(barcode) = 0 THEN "Product not found"
    ELSE IF warehouse_id \notin Warehouses THEN "Warehouse not found"
    ELSE IF /\ operation = "subtract"
            /\ SubtractRefused(TargetInventoryQuantity(operation,
                   CurrentCountedQuantity(qs, ProductOf(barcode), LotStock(warehouse_id)),
                   quantity.v))
         THEN "Insufficient stock"
    ELSE ""

\* the counted quantity applied at once: the row's on-hand takes the target
\* along with its counted quantity
SetCountedApplied(qs, p, l, target_inventory_quantity) ==
    LET quant == Search(qs, p, {l}) IN
    IF quant # << >>
    THEN [qs EXCEPT ![quant[1]].inv = target_inventory_quantity,
                    ![quant[1]].inv_set = TRUE,
                    ![quant[1]].quantity = target_inventory_quantity]
    ELSE Append(qs, [product |-> p, loc |-> l, quantity |-> target_inventory_quantity,
                     reserved |-> 0, inv |-> target_inventory_quantity, inv_set |-> TRUE])

\* lines 1013-1024: the row at the exact location takes the target as its
\* counted quantity; without a row one is created
SetCounted(qs, p, l, target_inventory_quantity) ==
    LET quant == Search(qs, p, {l}) IN
    IF quant # << >>
    THEN [qs EXCEPT ![quant[1]].inv = target_inventory_quantity,
                    ![quant[1]].inv_set = TRUE]
    ELSE Append(qs, [product |-> p, loc |-> l, quantity |-> 0, reserved |-> 0,
                     inv |-> target_inventory_quantity, inv_set |-> TRUE])

\* the operation's own name given as the change type
ChangeTypeOfName(operation) == operation

\* line 1032
ChangeType(operation) ==
    IF operation = "set" THEN "adjust_set"
    ELSE IF operation = "add" THEN "adjust_add"
    ELSE IF operation = "subtract" THEN "adjust_subtract"
    ELSE "other"

\* the response to a rejected adjust; an Insufficient stock response carries
\* the current counted quantity and the requested quantity (lines 989-995)
AdjustRejection(qs, request, error) ==
    IF error = "Insufficient stock"
    THEN [Rejected("adjust", request, StatusOf(error), error) EXCEPT
             !.operation = request.operation,
             !.quantity = request.quantity.v,
             !.previous_counted_quantity =
                 CurrentCountedQuantity(qs, ProductOf(request.barcode),
                                        LotStock(request.warehouse_id))]
    ELSE Rejected("adjust", request, StatusOf(error), error)

AdjustRejectionReads(error) ==
    IF error \in {"Missing barcode", "Product not found"} THEN {"barcode"}
    ELSE IF error \in {"Missing warehouse_id", "Warehouse not found"} THEN {"warehouse"}
    ELSE IF error = "Invalid operation" THEN {"operation"}
    ELSE IF error = "Missing quantity" THEN {"quantity"}
    ELSE {"warehouse", "operation", "quantity"}

PlainAdjustFields(barcode, warehouse_id, operation, quantity, reads) ==
    /\ "barcode" \notin reads => barcode = "P1"
    /\ "warehouse" \notin reads => warehouse_id = 1
    /\ "operation" \notin reads => operation = "set"
    /\ "quantity" \notin reads => quantity = [given |-> TRUE, v |-> 1]

\* adjust_inventory, a request that is rejected
AdjustRejected(barcode, warehouse_id, operation, quantity) ==
    \E error \in {AdjustError(quants, barcode, warehouse_id, operation, quantity)} :
        /\ error # ""
        /\ PlainAdjustFields(barcode, warehouse_id, operation, quantity,
                             AdjustRejectionReads(error))
        /\ last' = AdjustRejection(quants,
                       AdjustRequest(barcode, warehouse_id, operation, quantity), error)
        /\ UNCHANGED <<quants, moves, log>>

\* the audit entry of an adjust with the snapshots taken from the row at the
\* exact location instead of the rows of the location's subtree
AdjustEntryOfExactRow(qs, adjusted, p, l, operation) ==
    LET quant == Search(qs, p, {l})
        on_hand_before == IF quant = << >> THEN 0 ELSE qs[quant[1]].quantity
        available_before == IF quant = << >> THEN 0 ELSE Available(qs[quant[1]])
    IN ChangeEntry(QuantIdAt(adjusted, p, l), p, l, ChangeType(operation),
                   on_hand_before, on_hand_before, available_before, available_before, l, l)

\* lines 1002-1046: the audit entry of an adjust, its before and after
\* snapshots both being the sums over the rows of the location's subtree
\* before the counted quantity is written
AdjustEntry(qs, adjusted, p, l, operation) ==
    LET on_hand_before == OnHand(qs, p, l)
        available_before == AvailableQty(qs, p, l)
        on_hand_after == on_hand_before
        available_after == available_before
    IN ChangeEntry(QuantIdAt(adjusted, p, l), p, l, ChangeType(operation),
                   on_hand_before, on_hand_after, available_before, available_after, l, l)

\* lines 959-1060 for an accepted request: the ledger (q), the audit entry
\* and the response
AdjustOutcome(qs, barcode, warehouse_id, operation, quantity) ==
    LET variant == ProductOf(barcode)
        location == LotStock(warehouse_id)
        quantity_float == quantity.v
        current_counted_quantity == CurrentCountedQuantity(qs, variant, location)
        target_inventory_quantity ==
            TargetInventoryQuantity(operation, current_counted_quantity, quantity_float)
        on_hand_before == OnHand(qs, variant, location)
        available_before == AvailableQty(qs, variant, location)
        adjusted == SetCounted(qs, variant, location, target_inventory_quantity)
        entry == AdjustEntry(qs, adjusted, variant, location, operation)
    IN [q |-> adjusted, entry |-> entry,
        result |-> [NoResult EXCEPT
                      !.op = "adjust", !.ok = TRUE, !.status = 200,
                      !.request = AdjustRequest(barcode, warehouse_id, operation, quantity),
                      !.product = variant, !.src = location, !.dst = location,
                      !.operation = operation, !.quantity = quantity_float,
                      !.source_qty_before = on_hand_before,
                      !.source_qty_after = on_hand_before,
                      !.source_available_before = available_before,
                      !.source_available_after = available_before,
                      !.previous_counted_quantity = current_counted_quantity,
                      !.new_counted_quantity = target_inventory_quantity]]

\* adjust_inventory, a request that is accepted; the model follows counted
\* quantities up to MaxCount
AdjustAccepted(barcode, warehouse_id, operation, quantity, logFails) ==
    /\ AdjustError(quants, barcode, warehouse_id, operation, quantity) = ""
    /\ \E out \in {AdjustOutcome(quants, barcode, warehouse_id, operation, quantity)} :
          /\ Abs(out.result.new_counted_quantity) <= MaxCount
          /\ quants' = out.q
          /\ log' = LogQuantChange(log, out.entry, logFails)
          /\ last' = AfterAudit(out.result, IF logFails THEN 1 ELSE 0)
          /\ UNCHANGED moves

\* adjust_inventory from line 888 on: the request whose token passed
AdjustServed ==
    /\ left > 0
    /\ left' = left - 1
    /\ UNCHANGED <<txs, run>>
    /\ \E barcode \in Barcodes, warehouse_id \in WarehouseIds,
          operation \in Operations, quantity \in Quantities(-1, MaxAdj) :
          \/ AdjustRejected(barcode, warehouse_id, operation, quantity)
          \/ \E logFails \in {lf.source : lf \in LogFaultsAt(left, << >>)} :
                 AdjustAccepted(barcode, warehouse_id, operation, quantity, logFails)

(* ----------------------------- the by-sku query ----------------------- *)

\* the sku parameter: absent, the default_code of the template of product 1,
\* and a code no template has
Skus == {"", "S1", "Z9"}

\* product_template.product_variant_ids of the template found by sku (lines
\* 207-209, 244), in id order
VariantsOf(sku) == IF sku = "S1" THEN <<1>> ELSE << >>

\* the store_id parameter: absent (0), a stock.location id, an id of none
StoreIds == {0, 2, 9}

\* lines 192-241: the error a query is answered with, "" when it is served
BySkuError(sku, warehouse_id, store_id) ==
    IF sku = "" THEN "Missing SKU parameter"
    ELSE IF warehouse_id = 0 /\ store_id = 0 THEN "Missing location parameter"
    ELSE IF VariantsOf(sku) = << >> THEN "Product not found"
    ELSE IF warehouse_id # 0 /\ warehouse_id \notin Warehouses THEN "Warehouse not found"
    ELSE IF warehouse_id = 0 /\ store_id \notin Locations THEN "Store location not found"
    ELSE ""

\* the HTTP status of each of these errors
BySkuStatus(error) ==
    IF error \in {"Missing SKU parameter", "Missing location parameter"} THEN 400 ELSE 404

\* lines 219-241: the location queried, the warehouse's stock location when
\* a warehouse_id is given, else the location store_id names
BySkuLocation(warehouse_id, store_id) ==
    IF warehouse_id # 0 THEN LotStock(warehouse_id) ELSE store_id

\* the quantities read from the row at the exact location only
VariantListOfExactRows(qs, variants, k, location) ==
    IF variants = << >> THEN << >>
    ELSE LET at == Search(qs, variants[1], {location}) IN
         <<[variant_id |-> variants[1],
            quantity |-> SumOver(qs, at, 1),
            available_quantity |-> SumAvailOver(qs, at, 1)]>>

\* the loop of lines 247-268 over the variants from position k on: each
\* variant with the sums of quantity and of available_quantity over its rows
\* at or below the location
RECURSIVE VariantList(_, _, _, _)
VariantList(qs, variants, k, location) ==
    IF k > Len(variants) THEN << >>
    ELSE LET stock_quants == Search(qs, variants[k], Subtree(location)) IN
         <<[variant_id |-> variants[k],
            quantity |-> SumOver(qs, stock_quants, 1),
            available_quantity |-> SumAvailOver(qs, stock_quants, 1)]>>
             \o VariantList(qs, variants, k + 1, location)

\* Of the queries one check rejects, the model serves one: the response
\* depends on no parameter the rejecting check does not read.
PlainQuery(sku, warehouse_id, store_id, error) ==
    IF error = "Missing SKU parameter" THEN warehouse_id = 1 /\ store_id = 0
    ELSE IF error = "Product not found" THEN warehouse_id = 1 /\ store_id = 0
    ELSE IF error = "Warehouse not found" THEN store_id = 0
    ELSE TRUE

\* get_inventory_by_sku from line 191 on: a response and nothing else
BySkuServed ==
    /\ left > 0
    /\ left' = left - 1
    /\ UNCHANGED <<txs, run>>
    /\ \E sku \in Skus, warehouse_id \in WarehouseIds, store_id \in StoreIds :
          \E error \in {BySkuError(sku, warehouse_id, store_id)} :
             /\ PlainQuery(sku, warehouse_id, store_id, error)
             /\ last' = IF error # ""
                        THEN Rejected("by_sku", NoResult.request, BySkuStatus(error), error)
                        ELSE [NoResult EXCEPT
                                 !.op = "by_sku", !.ok = TRUE, !.status = 200,
                                 !.query = [sku |-> sku, warehouse_id |-> warehouse_id,
                                            store_id |-> store_id],
                                 !.dst = BySkuLocation(warehouse_id, store_id),
                                 !.variants =
                                     VariantList(quants, VariantsOf(sku), 1,
                                                 BySkuLocation(warehouse_id, store_id))]
    /\ UNCHANGED <<quants, moves, log>>

(* ---------------------- requests served at the same time --------------- *)
(* The handlers open no transaction, take no lock and undo nothing: every   *)
(* read and write goes through request.env, which Odoo runs in one          *)
(* PostgreSQL transaction per request at REPEATABLE READ.  A request reads  *)
(* the tables as committed when it began (snap); an UPDATE locks its row    *)
(* until the request ends, waits for a row another request holds, and is    *)
(* refused when the row was committed anew after the request began; an      *)
(* INSERT meets nothing, stock.quant having no unique key; the writes show  *)
(* to others at the commit, which follows the handler's return.             *)

\* the two requests
Requests == {1, 2}

\* a request: where it stands (pc), how often it began (tries), its body and
\* handler (op), the status answered, the ledger it read (snap), the ledger,
\* reservations and audit entries it computed (new, made, entries), the
\* rows its UPDATEs are still to write, in the handler's order (writes), and
\* the rows it wrote and holds (held)
NoRequest ==
    [pc |-> "none", tries |-> 0, op |-> "",
     request |-> TransferRequest("", 0, 0, [given |-> FALSE, v |-> 0]),
     status |-> 0, snap |-> << >>, new |-> << >>, made |-> << >>,
     entries |-> << >>, writes |-> << >>, held |-> {}]

\* no request is served at the same time as another
NoRequests == [base |-> << >>, t |-> <<NoRequest, NoRequest>>]

(* ----------------------- an invocation pass by pass -------------------- *)

\* an invocation: where it stands (pc), its body, the status answered, the
\* faults it meets (c), the handler's variant, source_location,
\* destination_location, quantity_float and additional_to_add, the rows the
\* loops of lines 463 and 482 go over (idx) and the position of the latter
\* (r), the sequence the running inner loop goes over (lines, mids), its
\* position (k) and its remaining_to_subtract or remaining_to_reduce, and
\* the ledger and the reservations as written so far (st)
NoRun ==
    [pc |-> "none", request |-> TransferRequest("", 0, 0, [given |-> FALSE, v |-> 0]),
     status |-> 0, c |-> [f |-> NoFault, hasRes |-> TRUE],
     p |-> 0, src |-> 0, dst |-> 0, quantity |-> 0, additional |-> 0,
     idx |-> << >>, r |-> 0, lines |-> << >>, mids |-> << >>, k |-> 0, remaining |-> 0,
     st |-> [q |-> << >>, m |-> << >>, fb |-> 0, tr |-> << >>]]

(* --------------------------- the initial states ------------------------ *)
(* A ledger with at most one row per location, every row's reserved        *)
(* quantity being what the move lines at its location reserve and never    *)
(* more than its on-hand; each initial move has one line, at the move's    *)
(* location.  `left` is the number of requests the behaviour still serves: *)
(* MaxOps from a ledger whose rows all hold MaxQty, one from any other.    *)

\* POST /api/inventory/transfer, the request carrying the active token
Transfer == Authorize(ActiveHeaders) /\ TransferServed

\* POST /api/inventory/adjust, the request carrying the active token
Adjust == Authorize(ActiveHeaders) /\ AdjustServed

\* GET /api/inventory/by-sku, the request carrying the active token
BySku == Authorize(ActiveHeaders) /\ BySkuServed

\* the orders the rows' ids may be in: parent row first, or child row first
RowOrders == {<<1, 2, 3>>, <<2, 3, 1>>}

InitialMoves ==
    {[product |-> 1, loc |-> l, lines |-> <<[loc |-> l, qty |-> n]>>] :
        l \in Locations, n \in 1..MaxQty}

RECURSIVE ReservedAt(_, _, _)
ReservedAt(ms, l, m) ==
    IF m > Len(ms) THEN 0
    ELSE (IF ms[m].lines[1].loc = l THEN ms[m].lines[1].qty ELSE 0) + ReservedAt(ms, l, m + 1)

\* the rows of the locations of `order` that have one (onhand[l] >= 0)
RECURSIVE RowsOf(_, _, _, _)
RowsOf(order, k, onhand, ms) ==
    IF k > Len(order) THEN << >>
    ELSE LET l == order[k] IN
         (IF onhand[l] >= 0
          THEN <<[product |-> 1, loc |-> l, quantity |-> onhand[l],
                  reserved |-> ReservedAt(ms, l, 1), inv |-> 0, inv_set |-> FALSE]>>
          ELSE << >>) \o RowsOf(order, k + 1, onhand, ms)

Init ==
    /\ \E order \in RowOrders, onhand \in [Locations -> -1..MaxQty],
          ms \in UNION {[1..n -> InitialMoves] : n \in 0..MaxMoves} :
          /\ \A l \in Locations : ReservedAt(ms, l, 1) <= Max(onhand[l], 0)
          /\ quants = RowsOf(order, 1, onhand, ms)
          /\ moves = ms
          /\ left = IF \A l \in Locations : onhand[l] \in {-1, MaxQty} THEN MaxOps ELSE 1
    /\ log = << >>
    /\ last = NoResult
    /\ txs = NoRequests
    /\ run = NoRun
    /\ tokens = InitialTokens

Next == Transfer \/ Adjust \/ BySku

Spec == Init /\ [][Next]_vars

\* The requests served from a ledger whose source rows are reserved by up to
\* MaxLines moves: warehouse 1 holds a row at its stock location and one at
\* the child location, each with its reserved quantity and at most one unit
\* more on hand; warehouse 2 holds nothing.
ReservedInit ==
    /\ \E ms \in UNION {[1..n -> {m \in InitialMoves : m.loc \in Subtree(1)}] :
                             n \in 0..MaxLines},
          extra \in 0..1 :
          /\ quants = RowsOf(<<1, 2, 3>>, 1,
                             [l \in Locations |->
                                 IF l \in Subtree(1) THEN ReservedAt(ms, l, 1) + extra
                                 ELSE -1], ms)
          /\ moves = ms
    /\ left = 1
    /\ log = << >>
    /\ last = NoResult
    /\ txs = NoRequests
    /\ run = NoRun
    /\ tokens = InitialTokens

ReservedSpec == ReservedInit /\ [][Next]_vars

(* ---------------------- two requests at the same time ----------------- *)
(* Each of the two requests carries an active token of its own: the usage  *)
(* _validate_token writes is a row of api.token that the other request     *)
(* neither reads nor writes, and tokens is left as it is.                   *)

\* how often a request is begun: Odoo's retrying() serves a request again
\* whose flush met a serialization failure or a deadlock
MaxTries == 2

\* the bodies of the requests served together: transfers between the two
\* warehouses and adds at either
ConcurrentRequests ==
    {TransferRequest("P1", s, d, [given |-> TRUE, v |-> n]) :
        s \in Warehouses, d \in Warehouses, n \in 1..MaxQty}
    \cup {AdjustRequest("P1", w, "add", [given |-> TRUE, v |-> n]) :
              w \in Warehouses, n \in 1..MaxAdj}

\* the rows, of those that were there before, an assignment of the handler
\* changes: `quant.quantity = ...` (lines 463-473, 704-712) and
\* `quant.inventory_quantity = ...` (lines 1014-1016)
RowsWritten(before, after) == {k \in 1..Len(before) : after[k] # before[k]}

\* no UPDATE is ever refused
SerializationFailureNever(committed, snap, rows) == FALSE

\* an UPDATE of a row committed anew since the request began is refused
\* ("could not serialize access due to concurrent update")
SerializationFailure(committed, snap, rows) == \E k \in rows : committed[k] # snap[k]

\* a request the handler rejected, and one it accepted with the writes it
\* goes on to make
Answered(op, request, tries, status) ==
    [NoRequest EXCEPT !.pc = "answered", !.tries = tries, !.op = op,
                      !.request = request, !.status = status]

Begun(op, request, tries, snap, new, made, entries, writes) ==
    [NoRequest EXCEPT !.pc = "begun", !.tries = tries, !.op = op, !.request = request,
                      !.snap = snap, !.new = new, !.made = made,
                      !.entries = entries, !.writes = writes]

\* lines 331-850 on the tables as the request reads them
BeginTransfer(i, request, tries) ==
    \E error \in {TransferError(quants, request.barcode, request.source_warehouse_id,
                                request.destination_warehouse_id, request.quantity)} :
       IF error # ""
       THEN txs' = [txs EXCEPT !.t[i] = Answered("transfer", request, tries, StatusOf(error))]
       ELSE \E out \in {TransferOutcome(quants, moves, request.barcode,
                                        request.source_warehouse_id,
                                        request.destination_warehouse_id,
                                        request.quantity, NoFault, TRUE)} :
               txs' = [txs EXCEPT !.t[i] =
                          Begun("transfer", request, tries, quants, out.q,
                                SubSeq(out.m, Len(moves) + 1, Len(out.m)), out.entries,
                                <<RowsWritten(quants, out.kept.q),
                                  RowsWritten(out.kept.q, out.q)>>)]

\* lines 893-1060 on the tables as the request reads them
BeginAdjust(i, request, tries) ==
    \E error \in {AdjustError(quants, request.barcode, request.warehouse_id,
                              request.operation, request.quantity)} :
       IF error # ""
       THEN txs' = [txs EXCEPT !.t[i] = Answered("adjust", request, tries, StatusOf(error))]
       ELSE \E out \in {AdjustOutcome(quants, request.barcode, request.warehouse_id,
                                      request.operation, request.quantity)} :
               txs' = [txs EXCEPT !.t[i] =
                          Begun("adjust", request, tries, quants, out.q, << >>,
                                <<out.entry>>, <<RowsWritten(quants, out.q)>>)]

\* the request arrives, or is served again: the handler reads the tables as
\* committed by now
Begin(i) ==
    /\ txs.t[i].pc = "idle"
    /\ \E request \in (IF txs.t[i].tries = 0 THEN ConcurrentRequests
                       ELSE {txs.t[i].request}) :
          IF request.operation = ""
          THEN BeginTransfer(i, request, txs.t[i].tries + 1)
          ELSE BeginAdjust(i, request, txs.t[i].tries + 1)
    /\ UNCHANGED <<quants, moves, log, last, left, run, tokens>>

\* request i waits: the rows of its next UPDATE include one request j holds
WaitsFor(i, j) ==
    /\ i # j
    /\ txs.t[i].pc = "begun"
    /\ txs.t[i].writes # << >>
    /\ Head(txs.t[i].writes) \cap txs.t[j].held # {}

\* the transaction is rolled back: nothing it wrote is kept, and the request
\* is answered 500 (the error reached the handler's except branch, lines
\* 858-864 and 1068-1074) or served again (it reached retrying())
RolledBack(i) ==
    \E again \in (IF txs.t[i].tries < MaxTries THEN BOOLEAN ELSE {FALSE}) :
       txs' = [txs EXCEPT !.t[i] =
                  IF again
                  THEN [NoRequest EXCEPT !.pc = "idle", !.tries = txs.t[i].tries,
                                         !.op = txs.t[i].op, !.request = txs.t[i].request]
                  ELSE Answered(txs.t[i].op, txs.t[i].request, txs.t[i].tries, 500)]

\* the next UPDATE of request i: the source rows of a transfer (lines
\* 463-473), then its destination row (lines 704-712); the row of an adjust
\* (lines 1014-1016)
Write(i) ==
    /\ txs.t[i].pc = "begun"
    /\ txs.t[i].writes # << >>
    /\ \A j \in Requests : ~WaitsFor(i, j)
    /\ IF SerializationFailure(quants, txs.t[i].snap, Head(txs.t[i].writes))
       THEN RolledBack(i)
       ELSE txs' = [txs EXCEPT !.t[i].held = @ \cup Head(txs.t[i].writes),
                               !.t[i].writes = Tail(@)]
    /\ UNCHANGED <<quants, moves, log, last, left, run, tokens>>

\* each of the two requests waits for a row the other holds: PostgreSQL ends
\* the wait by rolling one of them back ("deadlock detected")
DeadlockDetected(i) ==
    /\ \E j \in Requests : WaitsFor(i, j) /\ WaitsFor(j, i)
    /\ RolledBack(i)
    /\ UNCHANGED <<quants, moves, log, last, left, run, tokens>>

\* the committed ledger after the commit of a request that wrote the rows
\* `held` and created the rows of `new` beyond the n it read
RECURSIVE CommittedFrom(_, _, _, _)
CommittedFrom(committed, new, held, k) ==
    IF k > Len(committed) THEN << >>
    ELSE <<IF k \in held THEN new[k] ELSE committed[k]>>
         \o CommittedFrom(committed, new, held, k + 1)

Committed(committed, new, held, n) ==
    CommittedFrom(committed, new, held, 1) \o SubSeq(new, n + 1, Len(new))

RECURSIVE LogQuantChanges(_, _, _)
LogQuantChanges(lg, entries, k) ==
    IF k > Len(entries) THEN lg
    ELSE LogQuantChanges(LogQuantChange(lg, entries[k], FALSE), entries, k + 1)

\* the handler returned its success and the transaction commits
Commit(i) ==
    /\ txs.t[i].pc = "begun"
    /\ txs.t[i].writes = << >>
    /\ quants' = Committed(quants, txs.t[i].new, txs.t[i].held, Len(txs.t[i].snap))
    /\ moves' = moves \o txs.t[i].made
    /\ log' = LogQuantChanges(log, txs.t[i].entries, 1)
    /\ txs' = [txs EXCEPT !.t[i].pc = "answered", !.t[i].status = 200, !.t[i].held = {}]
    /\ UNCHANGED <<last, left, run, tokens>>

\* Two requests arrive together at a ledger of unreserved rows.
ConcurrentInit ==
    /\ \E onhand \in [Locations -> -1..MaxQty] :
          /\ quants = RowsOf(<<1, 2, 3>>, 1, onhand, << >>)
          /\ txs = [base |-> RowsOf(<<1, 2, 3>>, 1, onhand, << >>),
                    t |-> <<[NoRequest EXCEPT !.pc = "idle"],
                            [NoRequest EXCEPT !.pc = "idle"]>>]
    /\ moves = << >>
    /\ log = << >>
    /\ last = NoResult
    /\ left = 0
    /\ run = NoRun
    /\ tokens = InitialTokens

ConcurrentNext ==
    \E i \in Requests : Begin(i) \/ Write(i) \/ DeadlockDetected(i) \/ Commit(i)

ConcurrentSpec == ConcurrentInit /\ [][ConcurrentNext]_vars

(* ------------------------ the loops pass by pass ----------------------- *)
(* One invocation, each step one pass of one of its loops: the subtraction *)
(* (lines 463-473), the rows after it (lines 482-693) and, within a row,   *)
(* the reduction of the reserved lines (lines 518-536) and the cancelling  *)
(* of the moves (lines 553-567).  A pass is the loop's recursive operator  *)
(* applied to the one element the pass is at.                              *)

\* the bodies of the invocations followed
LoopRequests ==
    {TransferRequest("P1", 1, 2, [given |-> TRUE, v |-> n]) : n \in 1..MaxReq}
    \cup {AdjustRequest("P1", 1, operation, [given |-> TRUE, v |-> n]) :
              operation \in {"add", "subtract"}, n \in 1..MaxAdj}

\* a pass that leaves the loop where it is
NextPassAgain(k) == k

\* `for ... in ...`: a pass that ends without a break moves the loop on to
\* the next element (lines 464, 482, 519, 553)
NextPass(k) == k + 1

\* the request arrives: lines 331-428 answer it, or the transfer comes to
\* its subtraction (line 462) and the adjust to its write
Invoke ==
    /\ run.pc = "idle"
    /\ \E request \in LoopRequests :
          IF request.operation = ""
          THEN \E error \in {TransferError(quants, request.barcode,
                                           request.source_warehouse_id,
                                           request.destination_warehouse_id,
                                           request.quantity)} :
                  IF error # ""
                  THEN run' = [run EXCEPT !.pc = "done", !.request = request,
                                          !.status = StatusOf(error)]
                  ELSE \E c \in FaultChoices(quants, ProductOf(request.barcode),
                                             LotStock(request.source_warehouse_id),
                                             request.quantity.v) :
                          run' = [run EXCEPT
                                     !.pc = "subtract", !.request = request, !.c = c,
                                     !.p = ProductOf(request.barcode),
                                     !.src = LotStock(request.source_warehouse_id),
                                     !.dst = LotStock(request.destination_warehouse_id),
                                     !.quantity = request.quantity.v,
                                     !.additional =
                                         AdditionalToAdd(
                                             AvailableQty(quants, ProductOf(request.barcode),
                                                 LotStock(request.source_warehouse_id)),
                                             request.quantity.v),
                                     !.idx = Search(quants, ProductOf(request.barcode),
                                                 Subtree(LotStock(request.source_warehouse_id))),
                                     !.k = 1, !.remaining = request.quantity.v,
                                     !.st = [q |-> quants, m |-> moves, fb |-> 0,
                                             tr |-> << >>]]
          ELSE \E error \in {AdjustError(quants, request.barcode, request.warehouse_id,
                                         request.operation, request.quantity)} :
                  run' = [run EXCEPT !.pc = IF error # "" THEN "done" ELSE "count",
                                     !.request = request,
                                     !.status = IF error # "" THEN StatusOf(error) ELSE 0]
    /\ UNCHANGED <<quants, moves, log, last, left, txs, tokens>>

\* one pass of the loop of lines 463-473, or its end
AfterSubtractPass(rn) ==
    IF rn.k > Len(rn.idx) \/ rn.remaining <= 0
    THEN [rn EXCEPT !.pc = "rows", !.r = 1]
    ELSE LET subtracted == SubtractLoop(rn.st.q, <<rn.idx[rn.k]>>, 1, rn.remaining) IN
         [rn EXCEPT !.st.q = subtracted,
                    !.remaining = @ - (rn.st.q[rn.idx[rn.k]].quantity
                                       - subtracted[rn.idx[rn.k]].quantity),
                    !.k = NextPass(@)]

SubtractPass ==
    /\ run.pc = "subtract"
    /\ \E after \in {AfterSubtractPass(run)} : run' = after
    /\ UNCHANGED <<quants, moves, log, last, left, txs, tokens>>

\* the loop of lines 482-693 comes to its next row, or ends: a row with a
\* negative available enters the repair (lines 487-518)
AfterRowPass(rn) ==
    IF rn.r > Len(rn.idx)
    THEN [rn EXCEPT !.pc = "destination"]
    ELSE LET i == rn.idx[rn.r]
             excess_reserved == Abs(Available(rn.st.q[i]))
             found == [rn.st EXCEPT
                          !.tr = Append(@, RepairEvent("negative", i, 0, 0,
                                                       excess_reserved))]
         IN IF Available(rn.st.q[i]) >= 0
            THEN [rn EXCEPT !.pc = "row_end"]
            ELSE IF rn.c.f.repair
            THEN [rn EXCEPT
                     !.pc = "row_end",
                     !.st = FloorFallback(
                                [found EXCEPT
                                    !.tr = Append(@, RepairEvent("raise", i, 0, 0, 0))], i)]
            ELSE [rn EXCEPT
                     !.pc = "reduce",
                     !.st = [found EXCEPT
                                !.tr = Append(@, RepairEvent("reduce_tier", i, 0, 0,
                                                             excess_reserved))],
                     !.lines = SortLargestFirst(
                                   MoveLinesWithReserved(rn.st.m, rn.p,
                                       Subtree(rn.st.q[i].loc), rn.c.hasRes)),
                     !.k = 1, !.remaining = excess_reserved]

RowPass ==
    /\ run.pc = "rows"
    /\ \E after \in {AfterRowPass(run)} : run' = after
    /\ UNCHANGED <<quants, moves, log, last, left, txs, tokens>>

\* one pass of the loop of lines 519-536, or its end: a row still negative
\* goes on to the cancelling of the moves (lines 543-551)
AfterReducePass(rn) ==
    LET i == rn.idx[rn.r] IN
    IF rn.k > Len(rn.lines) \/ rn.remaining <= 0
    THEN IF Available(rn.st.q[i]) < 0
         THEN [rn EXCEPT
                  !.pc = "cancel",
                  !.st.tr = Append(@, RepairEvent("release_tier", i, 0, 0,
                                                  Abs(Available(rn.st.q[i])))),
                  !.mids = MovesFrom(rn.st.m, rn.p, Subtree(rn.st.q[i].loc), 1),
                  !.k = 1]
         ELSE [rn EXCEPT !.pc = "row_end"]
    ELSE [rn EXCEPT
             !.st = ReduceLoop(rn.st, rn.p, <<rn.lines[rn.k]>>, 1, rn.remaining),
             !.remaining = @ - Min(rn.lines[rn.k].qty, rn.remaining),
             !.k = NextPass(@)]

ReducePass ==
    /\ run.pc = "reduce"
    /\ \E after \in {AfterReducePass(run)} : run' = after
    /\ UNCHANGED <<quants, moves, log, last, left, txs, tokens>>

\* one pass of the loop of lines 553-567, or its end, and the floor of
\* lines 570-574 after it
AfterCancelPass(rn) ==
    LET i == rn.idx[rn.r] IN
    IF rn.k > Len(rn.mids)
    THEN [rn EXCEPT !.pc = "row_end", !.st = FloorFallback(rn.st, i)]
    ELSE LET cancelled == CancelLoop(rn.st, rn.p, i, <<rn.mids[rn.k]>>, 1, rn.c.f.cancel) IN
         IF ~rn.c.f.cancel /\ Available(cancelled.q[i]) >= 0
         THEN [rn EXCEPT !.pc = "row_end", !.st = FloorFallback(cancelled, i)]
         ELSE [rn EXCEPT !.st = cancelled, !.k = NextPass(@)]

CancelPass ==
    /\ run.pc = "cancel"
    /\ \E after \in {AfterCancelPass(run)} : run' = after
    /\ UNCHANGED <<quants, moves, log, last, left, txs, tokens>>

\* the rest of the pass of the loop of lines 482-693 (lines 585-693)
AfterRowEnd(rn) ==
    LET reserved == ReserveExcess(ReserveRemaining(rn.st, rn.p, rn.idx[rn.r],
                                                   rn.additional, rn.c.f),
                                  rn.p, rn.idx[rn.r], rn.c.f)
    IN [rn EXCEPT !.pc = "rows",
                  !.st = [q |-> reserved.q, m |-> Purge(reserved.m), fb |-> reserved.fb,
                          tr |-> reserved.tr],
                  !.r = NextPass(@)]

RowEnd ==
    /\ run.pc = "row_end"
    /\ \E after \in {AfterRowEnd(run)} : run' = after
    /\ UNCHANGED <<quants, moves, log, last, left, txs, tokens>>

\* lines 704-850: the destination, the audit entries and the answer
Destination ==
    /\ run.pc = "destination"
    /\ \E done \in {TransferDestination(run.st, run.p, run.dst, run.quantity,
                                        run.additional, run.c.f)},
          out \in {TransferOutcome(quants, moves, run.request.barcode,
                                   run.request.source_warehouse_id,
                                   run.request.destination_warehouse_id,
                                   run.request.quantity, run.c.f, run.c.hasRes)} :
          /\ run' = [run EXCEPT !.pc = "done", !.status = 200, !.st = done]
          /\ quants' = done.q
          /\ moves' = done.m
          /\ log' = LogQuantChange(LogQuantChange(log, out.entries[1], FALSE),
                                   out.entries[2], FALSE)
    /\ UNCHANGED <<last, left, txs, tokens>>

\* lines 959-1060: the adjust has no loop
Count ==
    /\ run.pc = "count"
    /\ \E out \in {AdjustOutcome(quants, run.request.barcode, run.request.warehouse_id,
                                  run.request.operation, run.request.quantity)} :
          /\ run' = [run EXCEPT !.pc = "done", !.status = 200]
          /\ quants' = out.q
          /\ log' = LogQuantChange(log, out.entry, FALSE)
    /\ UNCHANGED <<moves, last, left, txs, tokens>>

\* One invocation arrives at a ledger whose source rows are reserved by up
\* to MaxLines moves (the ledgers of ReservedInit).
LoopInit ==
    /\ \E ms \in UNION {[1..n -> {m \in InitialMoves : m.loc \in Subtree(1)}] :
                             n \in 0..MaxLines},
          extra \in 0..1 :
          /\ quants = RowsOf(<<1, 2, 3>>, 1,
                             [l \in Locations |->
                                 IF l \in Subtree(1) THEN ReservedAt(ms, l, 1) + extra
                                 ELSE -1], ms)
          /\ moves = ms
    /\ left = 0
    /\ log = << >>
    /\ last = NoResult
    /\ txs = NoRequests
    /\ run = [NoRun EXCEPT !.pc = "idle"]
    /\ tokens = InitialTokens

LoopNext ==
    \/ Invoke
    \/ SubtractPass
    \/ RowPass
    \/ ReducePass
    \/ CancelPass
    \/ RowEnd
    \/ Destination
    \/ Count

\* The handler runs to its return without yielding (request-per-call, no
\* await, no callback): a pass that can be taken is taken.
LoopSpec == LoopInit /\ [][LoopNext]_vars /\ WF_vars(LoopNext)

(* ------------------------------ properties ----------------------------- *)

\* the last request served was a transfer, and it succeeded
TransferDone == last.op = "transfer" /\ last.ok

\* the step serves a transfer request
TransferStep == left' = left - 1 /\ last'.op = "transfer"

\* C1: starting from a ledger whose rows all have available = on-hand -
\* reserved >= 0, every row of the ledger has available >= 0 after any
\* sequence of completed transfers and adjusts.
C1_AvailableNeverNegative ==
    \A i \in 1..Len(quants) : Available(quants[i]) >= 0

\* a transfer whose subtraction left a row negative and whose repair went as
\* far as the floor, every row being non-negative after it
C1_RepairedToTheFloor ==
    /\ TransferDone
    /\ last.fallback > 0
    /\ \A i \in 1..Len(quants) : Available(quants[i]) >= 0

\* C2: starting from rows with on-hand >= 0, every row has on-hand >= 0 after
\* any sequence of completed transfers; the subtraction takes from each
\* source row at most what the row holds and goes on to the next row for the
\* rest, so that the rows together give the whole quantity.
C2_OnHandNeverNegative ==
    /\ \A i \in 1..Len(quants) : quants[i].quantity >= 0
    /\ \A w \in Warehouses, n \in 1..MaxReq :
           LET p == ProductOf("P1")
               idx == Search(quants, p, Subtree(LotStock(w)))
               sub == SubtractLoop(quants, idx, 1, n)
           IN OnHand(quants, p, LotStock(w)) >= n =>
                  /\ \A k \in 1..Len(idx) :
                         /\ sub[idx[k]].quantity >= 0
                         /\ sub[idx[k]].quantity <= quants[idx[k]].quantity
                  /\ OnHand(sub, p, LotStock(w)) = OnHand(quants, p, LotStock(w)) - n

\* a transfer of more than one row can hold, taken from the two rows of the
\* first warehouse without the floor being used
C2_TakenFromTwoRows ==
    /\ TransferDone
    /\ last.src = LotStock(1)
    /\ last.quantity > MaxQty
    /\ last.fallback = 0
    /\ \A i \in 1..Len(quants) : quants[i].quantity >= 0

\* C3: a successful transfer of a quantity that is at most the source's
\* available before it has additional_to_add = 0, and the destination's
\* available after it is its available before plus the quantity.
C3_WithinAvailable ==
    TransferDone /\ last.quantity <= last.source_available_before =>
        /\ last.additional_to_add = 0
        /\ last.dest_available_after = last.destination_available_before + last.quantity

\* such a transfer from a source that has reservations
C3_WithinAvailableOfReservedSource ==
    /\ TransferDone
    /\ last.quantity <= last.source_available_before
    /\ last.source_available_before < last.source_qty_before
    /\ last.dest_available_after = last.destination_available_before + last.quantity

\* C4: a successful transfer of a quantity above the source's available (and
\* at most its on-hand) leaves the source's available, summed over the rows
\* of its subtree, at exactly 0.
C4_SourceAvailableZero ==
    TransferDone /\ last.source_available_before < last.quantity =>
        last.source_available_after = 0

\* C5: a successful transfer of Q leaves the destination's on-hand at its
\* on-hand before plus Q, and where the destination location had no row, a
\* row holding Q is created for it.
C5_DestinationOnHand ==
    [][TransferStep /\ last'.ok =>
          LET p == last'.product
              dst == last'.dst
          IN /\ OnHand(quants', p, dst) = OnHand(quants, p, dst) + last'.quantity
             /\ last'.destination_qty_after = last'.destination_qty_before + last'.quantity
             /\ Search(quants, p, {dst}) = << >> =>
                    /\ Len(quants') = Len(quants) + 1
                    /\ quants'[Len(quants')].product = p
                    /\ quants'[Len(quants')].loc = dst
                    /\ quants'[Len(quants')].quantity = last'.quantity]_vars

\* a transfer beyond the available to a destination that held nothing, whose
\* row is the newest of the ledger
C5_DestinationRowCreated ==
    /\ TransferDone
    /\ last.additional_to_add > 0
    /\ last.destination_qty_before = 0
    /\ last.destination_qty_after = last.quantity
    /\ QuantIdAt(quants, last.product, last.dst) = Len(quants)

\* C6: a successful transfer with additional_to_add > 0 reserves exactly
\* additional_to_add at the destination, so that the destination's available
\* rises by available_to_transfer = min(source available before, Q), also
\* when the reservation cannot be created.
C6_DestinationAvailable ==
    TransferDone /\ last.additional_to_add > 0 =>
        last.dest_available_after =
            last.destination_available_before + last.available_to_transfer

\* C7, as stated: a successful transfer of Q leaves the source's on-hand,
\* summed over the rows of its subtree, at its on-hand before minus exactly
\* Q, whatever the repair of negative rows does.
C7_SourceOnHandExact ==
    TransferDone => last.source_qty_after = last.source_qty_before - last.quantity

\* C7, amended: a successful transfer of Q leaves the source's on-hand at its
\* on-hand before minus Q plus what the floor fallback of the repair put back
\* on hand; it is the on-hand before minus exactly Q when the fallback was
\* not used.
C7_SourceOnHandUpToFallback ==
    TransferDone =>
        /\ last.fallback >= 0
        /\ last.source_qty_after = last.source_qty_before - last.quantity + last.fallback

\* a transfer whose repair used the floor fallback
C7_FallbackUsed ==
    /\ TransferDone
    /\ last.fallback > 0
    /\ last.source_qty_after = last.source_qty_before - last.quantity + last.fallback

C9_RejectedTransferChangesNothing ==
    [][TransferStep =>
          LET r == last'.request
              violated ==
                  \/ ~r.quantity.given
                  \/ r.quantity.v <= 0
                  \/ ProductOf(r.barcode) = 0
                  \/ r.source_warehouse_id \notin Warehouses
                  \/ r.destination_warehouse_id \notin Warehouses
                  \/ r.source_warehouse_id = r.destination_warehouse_id
                  \/ OnHand(quants, ProductOf(r.barcode),
                            LotStock(r.source_warehouse_id)) < r.quantity.v
          IN violated =>
                 /\ ~last'.ok
                 /\ last'.error # ""
                 /\ UNCHANGED <<quants, moves, log>>]_vars

\* a transfer refused for want of stock after the audit log got entries
C9_RejectedAfterEntries ==
    /\ last.op = "transfer"
    /\ ~last.ok
    /\ last.error = "Insufficient stock"
    /\ log # << >>

\* C10: the sufficiency of a transfer is decided on the on-hand of the source
\* subtree, not on its available: an otherwise valid transfer of Q is
\* answered Insufficient stock exactly when the on-hand is below Q, and is
\* accepted when the available is below Q and the on-hand is not (no check
\* refuses it; an internal error alone can still fail it).
C10_SufficiencyOnOnHand ==
    [][TransferStep =>
          LET r == last'.request
              p == ProductOf(r.barcode)
              valid ==
                  /\ r.quantity.given
                  /\ r.quantity.v > 0
                  /\ p # 0
                  /\ r.source_warehouse_id \in Warehouses
                  /\ r.destination_warehouse_id \in Warehouses
                  /\ r.source_warehouse_id # r.destination_warehouse_id
              on_hand == OnHand(quants, p, LotStock(r.source_warehouse_id))
              available == AvailableQty(quants, p, LotStock(r.source_warehouse_id))
          IN /\ last'.error = "Insufficient stock" <=> (valid /\ on_hand < r.quantity.v)
             /\ (valid /\ available < r.quantity.v /\ r.quantity.v <= on_hand) =>
                    (last'.ok \/ last'.status = 500)]_vars

\* a transfer accepted beyond the source's available
C10_AcceptedBeyondAvailable ==
    /\ TransferDone
    /\ last.source_available_before < last.quantity
    /\ last.quantity <= last.source_qty_before

\* C11: a transfer whose source subtree holds an on-hand <= 0 is answered
\* with the No stock error.
C11_NoStockAnswered ==
    [][TransferStep =>
          LET r == last'.request
              p == ProductOf(r.barcode)
              valid ==
                  /\ r.quantity.given
                  /\ r.quantity.v > 0
                  /\ p # 0
                  /\ r.source_warehouse_id \in Warehouses
                  /\ r.destination_warehouse_id \in Warehouses
                  /\ r.source_warehouse_id # r.destination_warehouse_id
          IN (valid /\ OnHand(quants, p, LotStock(r.source_warehouse_id)) <= 0) =>
                 last'.error = "No stock"]_vars

\* the step serves an adjust request
AdjustStep == left' = left - 1 /\ last'.op = "adjust"

\* the last request served was an adjust, and it was accepted
AdjustDone == last.op = "adjust" /\ last.ok

C14_AdjustFrame ==
    [][AdjustStep =>
          LET l == LotStock(last'.request.warehouse_id) IN
          /\ moves' = moves
          /\ Len(quants') \in {Len(quants), Len(quants) + 1}
          /\ \A i \in 1..Len(quants) :
                 /\ quants'[i].product = quants[i].product
                 /\ quants'[i].loc = quants[i].loc
                 /\ quants'[i].quantity = quants[i].quantity
                 /\ quants'[i].reserved = quants[i].reserved
                 /\ quants'[i].inv # quants[i].inv => (last'.ok /\ quants[i].loc = l)
          /\ Len(quants') = Len(quants) + 1 =>
                 /\ last'.ok
                 /\ quants'[Len(quants')].loc = l
                 /\ quants'[Len(quants')].quantity = 0
                 /\ quants'[Len(quants')].reserved = 0]_vars

\* an adjust that created the row of its location beside rows that hold stock
C14_RowCreatedByAdjust ==
    /\ AdjustDone
    /\ Len(quants) >= 2
    /\ quants[Len(quants)].loc = last.dst
    /\ quants[Len(quants)].inv_set
    /\ quants[Len(quants)].inv = last.new_counted_quantity
    /\ quants[Len(quants)].inv # 0
    /\ quants[Len(quants)].quantity = 0
    /\ \E i \in 1..(Len(quants) - 1) : quants[i].quantity > 0

\* C15: the current counted quantity an adjust starts from is the counted
\* value of the row at the exact location when that row has one stored, the
\* row's on-hand when the row has none stored, and the on-hand of the rows of
\* the location's subtree when the exact location has no row.
C15_CurrentCounted ==
    [][AdjustStep /\ last'.ok =>
          LET r == last'.request
              p == ProductOf(r.barcode)
              l == LotStock(r.warehouse_id)
              row == Search(quants, p, {l})
          IN last'.previous_counted_quantity =
                 (IF row # << >> /\ quants[row[1]].inv_set THEN quants[row[1]].inv
                  ELSE IF row # << >> THEN quants[row[1]].quantity
                  ELSE OnHand(quants, p, l))]_vars

\* C16, as stated: a successful transfer adds exactly two audit entries, the
\* source's and then the destination's, both of type transfer; an accepted
\* adjust adds exactly one, of the type of its operation; a rejected request
\* adds none.
C16_EntriesExact ==
    [][left' = left - 1 =>
          LET new == SubSeq(log', Len(log) + 1, Len(log')) IN
          /\ Len(log') >= Len(log)
          /\ ~last'.ok => Len(new) = 0
          /\ (last'.ok /\ last'.op = "transfer") =>
                 /\ Len(new) = 2
                 /\ new[1].change_type = "transfer" /\ new[1].location_id = last'.src
                 /\ new[2].change_type = "transfer" /\ new[2].location_id = last'.dst
          /\ (last'.ok /\ last'.op = "adjust") =>
                 /\ Len(new) = 1
                 /\ new[1].change_type =
                        (IF last'.operation = "set" THEN "adjust_set"
                         ELSE IF last'.operation = "add" THEN "adjust_add"
                         ELSE "adjust_subtract")]_vars

\* C16, amended: a successful transfer adds two audit entries less those
\* whose creation failed, the source's before the destination's, each of type
\* transfer; an accepted adjust adds one entry of the type of its operation
\* unless its creation failed; a rejected request adds none.
C16_EntriesUnlessFailed ==
    [][left' = left - 1 =>
          LET new == SubSeq(log', Len(log) + 1, Len(log')) IN
          /\ Len(log') >= Len(log)
          /\ ~last'.ok => Len(new) = 0
          /\ (last'.ok /\ last'.op = "transfer") =>
                 /\ last'.audit_failed \in 0..2
                 /\ Len(new) = 2 - last'.audit_failed
                 /\ \A k \in 1..Len(new) :
                        /\ new[k].change_type = "transfer"
                        /\ new[k].location_id \in {last'.src, last'.dst}
                        /\ new[k].location_from_id = last'.src
                        /\ new[k].location_to_id = last'.dst
                 /\ Len(new) = 2 =>
                        new[1].location_id = last'.src /\ new[2].location_id = last'.dst
          /\ (last'.ok /\ last'.op = "adjust") =>
                 /\ last'.audit_failed \in 0..1
                 /\ Len(new) = 1 - last'.audit_failed
                 /\ \A k \in 1..Len(new) :
                        new[k].change_type =
                            (IF last'.operation = "set" THEN "adjust_set"
                             ELSE IF last'.operation = "add" THEN "adjust_add"
                             ELSE "adjust_subtract")]_vars

\* a successful transfer one of whose two audit entries was not created
C16_OneEntryLost ==
    /\ TransferDone
    /\ last.audit_failed = 1
    /\ Len(log) = 1

\* C17: a transfer or an adjust whose audit entry cannot be created is still
\* answered as a success, and what it wrote to the ledger stays: the
\* destination holds the quantity transferred, the row holds the counted
\* quantity.
C17_AuditFailureKeepsSuccess ==
    [][(left' = left - 1 /\ last'.audit_failed > 0) =>
          /\ last'.ok
          /\ last'.status = 200
          /\ last'.op = "transfer" =>
                 /\ OnHand(quants', last'.product, last'.dst) =
                        OnHand(quants, last'.product, last'.dst) + last'.quantity
                 /\ OnHand(quants', last'.product, last'.src) =
                        OnHand(quants, last'.product, last'.src)
                            - last'.quantity + last'.fallback
          /\ last'.op = "adjust" =>
                 quants'[QuantIdAt(quants', last'.product, last'.dst)].inv =
                     last'.new_counted_quantity]_vars

\* a transfer answered as a success although neither audit entry was created
C17_TransferWithoutEntries ==
    /\ TransferDone
    /\ last.audit_failed = 2
    /\ log = << >>
    /\ last.destination_qty_after = last.destination_qty_before + last.quantity

\* C18: the direction stored with an audit entry is a function of the
\* entry's snapshots: increase when the on-hand or the available rose (also
\* when the other fell), otherwise decrease when one of them fell, otherwise
\* neutral; the stored deltas are after - before.
C18_DirectionOfSnapshots ==
    \A k \in 1..Len(log) :
        LET e == log[k]
            doh == e.on_hand_after - e.on_hand_before
            dav == e.available_after - e.available_before
        IN /\ e.delta_on_hand = doh
           /\ e.delta_available = dav
           /\ e.direction = (IF doh > 0 \/ dav > 0 THEN "increase"
                             ELSE IF doh < 0 \/ dav < 0 THEN "decrease"
                             ELSE "neutral")

\* an entry whose on-hand fell while its available rose, stored as increase
C18_MixedDeltas ==
    \E k \in 1..Len(log) :
        /\ log[k].delta_on_hand < 0
        /\ log[k].delta_available > 0
        /\ log[k].direction = "increase"

\* C19: the audit entry of an accepted adjust has on_hand_before =
\* on_hand_after and available_before = available_after, both deltas 0 and
\* direction neutral, the values being the on-hand and the available of the
\* rows of the location's subtree when the adjust is served.
C19_AdjustEntrySnapshots ==
    [][(AdjustStep /\ last'.ok /\ Len(log') = Len(log) + 1) =>
          LET e == log'[Len(log')]
              p == last'.product
              l == last'.dst
          IN /\ e.on_hand_before = OnHand(quants, p, l)
             /\ e.on_hand_after = OnHand(quants', p, l)
             /\ e.on_hand_after = e.on_hand_before
             /\ e.available_before = AvailableQty(quants, p, l)
             /\ e.available_after = AvailableQty(quants', p, l)
             /\ e.available_after = e.available_before
             /\ e.delta_on_hand = 0
             /\ e.delta_available = 0
             /\ e.direction = "neutral"]_vars

\* the entry of an adjust at a location whose stock is in a row below it
C19_AdjustEntryOfSubtree ==
    /\ AdjustDone
    /\ last.audit_failed = 0
    /\ log # << >>
    /\ log[Len(log)].location_id = LotStock(1)
    /\ log[Len(log)].on_hand_before > 0
    /\ log[Len(log)].direction = "neutral"
    /\ \A i \in 1..Len(quants) : quants[i].loc = LotStock(1) => quants[i].quantity = 0

\* C20: the audit log is append-only: a step keeps every entry the log holds,
\* in place and field by field, and only adds entries after them.
C20_AppendOnly ==
    [][/\ Len(log') >= Len(log)
       /\ SubSeq(log', 1, Len(log)) = log]_vars

\* a log holding the entries of two requests
C20_EntriesOfTwoRequests ==
    /\ left = 0
    /\ Len(log) >= 3
    /\ last.ok

\* C26: the repair of a source row left with a negative available runs its
\* tiers in the order reduce, release, floor: the row's on-hand is raised by
\* the fallback only after the reduction and the release of reservations
\* were both attempted for that row, also when a tier fails with an error.
C26_FloorAfterBothTiers ==
    TransferDone =>
        \A k \in 1..Len(last.repairs) :
            last.repairs[k].tier = "floor" =>
                \E a \in 1..(k - 1), b \in 1..(k - 1) :
                    /\ a < b
                    /\ last.repairs[a].tier = "reduce_tier"
                    /\ last.repairs[a].row = last.repairs[k].row
                    /\ last.repairs[b].tier = "release_tier"
                    /\ last.repairs[b].row = last.repairs[k].row

\* the passes of the reduction loop from event k on, up to the next tier
RECURSIVE ReducePasses(_, _)
ReducePasses(tr, k) ==
    IF k > Len(tr) \/ tr[k].tier # "reduce" THEN << >>
    ELSE <<tr[k]>> \o ReducePasses(tr, k + 1)

RECURSIVE SumAmounts(_, _)
SumAmounts(ps, k) == IF k > Len(ps) THEN 0 ELSE ps[k].amount + SumAmounts(ps, k + 1)

\* C30: the reduction of reservations for a row with a negative available
\* takes the reservations largest first, takes min(reserved, remaining
\* deficit) from each, stops when the deficit is 0, and never takes more in
\* total than the row's deficit.
C30_ReductionLargestFirst ==
    \A k \in 1..Len(last.repairs) :
        last.repairs[k].tier = "reduce_tier" =>
            LET deficit == last.repairs[k].remaining
                ps == ReducePasses(last.repairs, k + 1)
            IN /\ \A j \in 1..Len(ps) :
                      /\ ps[j].remaining > 0
                      /\ ps[j].remaining = deficit - SumAmounts(SubSeq(ps, 1, j - 1), 1)
                      /\ ps[j].amount = Min(ps[j].reserved, ps[j].remaining)
                      /\ j > 1 => ps[j].reserved <= ps[j - 1].reserved
               /\ SumAmounts(ps, 1) <= deficit
               /\ deficit > 0

\* a reduction that took from two reservations, the larger one first
C30_TwoReservationsReduced ==
    \E k \in 1..Len(last.repairs) :
        /\ k + 2 <= Len(last.repairs)
        /\ last.repairs[k].tier = "reduce_tier"
        /\ last.repairs[k + 1].tier = "reduce"
        /\ last.repairs[k + 2].tier = "reduce"
        /\ last.repairs[k + 1].reserved > last.repairs[k + 2].reserved

\* C27: the body of the response to a successful transfer holds, for the
\* source and for the destination, the on-hand and the available before and
\* after the transfer, and the availableToTransfer / additionalOvercommit
\* split; the values are the sums over the rows of each location's subtree
\* in the ledger before and after the transfer.
C27_ResponseSnapshots ==
    [][(TransferStep /\ last'.ok) =>
          LET body == TransferResponse(last')
              p == last'.product
              Snapshot == {"on_hand_quantity_before", "on_hand_quantity_after",
                           "available_quantity_before", "available_quantity_after"}
          IN /\ Snapshot \subseteq DOMAIN body.source_warehouse
             /\ Snapshot \subseteq DOMAIN body.destination_warehouse
             /\ {"available_transferred", "additional_added"}
                    \subseteq DOMAIN body.transfer_details
             /\ body.source_warehouse.on_hand_quantity_before = OnHand(quants, p, last'.src)
             /\ body.source_warehouse.on_hand_quantity_after = OnHand(quants', p, last'.src)
             /\ body.source_warehouse.available_quantity_before =
                    AvailableQty(quants, p, last'.src)
             /\ body.source_warehouse.available_quantity_after =
                    AvailableQty(quants', p, last'.src)
             /\ body.destination_warehouse.on_hand_quantity_before =
                    OnHand(quants, p, last'.dst)
             /\ body.destination_warehouse.on_hand_quantity_after =
                    OnHand(quants', p, last'.dst)
             /\ body.destination_warehouse.available_quantity_before =
                    AvailableQty(quants, p, last'.dst)
             /\ body.destination_warehouse.available_quantity_after =
                    AvailableQty(quants', p, last'.dst)
             /\ body.transfer_details.available_transferred =
                    Min(AvailableQty(quants, p, last'.src), last'.quantity)
             /\ body.transfer_details.additional_added =
                    Max(0, last'.quantity - AvailableQty(quants, p, last'.src))]_vars

\* no two rows of the ledger qs are of the same product at the same location
OneRowPerPair(qs) ==
    \A i, j \in 1..Len(qs) :
        (qs[i].product = qs[j].product /\ qs[i].loc = qs[j].loc) => i = j

\* C28: the ledger holds at most one row per product and exact location,
\* before and after every request: a transfer's destination step and an
\* adjust create a row only when the pair has none, and otherwise write the
\* row the pair has, every row keeping its product and location.
C28_OneRowPerProductAndLocation ==
    [][/\ OneRowPerPair(quants)
       /\ OneRowPerPair(quants')
       /\ Len(quants') >= Len(quants)
       /\ \A i \in 1..Len(quants) :
              quants'[i].product = quants[i].product /\ quants'[i].loc = quants[i].loc
       /\ \A i \in (Len(quants) + 1)..Len(quants') :
              Search(quants, quants'[i].product, {quants'[i].loc}) = << >>]_vars

\* a transfer into a destination that had its row, followed by an adjust of
\* that same row
C28_RowReused ==
    /\ AdjustDone
    /\ left = 0
    /\ Len(log) = 3
    /\ log[2].location_id = last.dst
    /\ log[2].on_hand_before > 0
    /\ log[2].on_hand_after > log[2].on_hand_before
    /\ Len(Search(quants, last.product, {last.dst})) = 1

\* the sum of the on-hand (field "quantity") or of the available (any other
\* field) over the rows of qs of product p whose location is in locs
RECURSIVE LedgerSum(_, _, _, _)
LedgerSum(qs, p, locs, field) ==
    IF qs = << >> THEN 0
    ELSE (IF Head(qs).product = p /\ Head(qs).loc \in locs
          THEN (IF field = "quantity" THEN Head(qs).quantity
                ELSE Head(qs).quantity - Head(qs).reserved)
          ELSE 0) + LedgerSum(Tail(qs), p, locs, field)

\* C29: the by-sku query changes no row of the ledger, no reservation and no
\* audit entry, and reports for each variant of the product the sums of the
\* on-hand and of the available over all rows of the variant whose location
\* is the queried location or below it.
C29_BySkuReadsSubtree ==
    [][(left' = left - 1 /\ last'.op = "by_sku") =>
          /\ UNCHANGED <<quants, moves, log>>
          /\ last'.ok =>
                 /\ Len(last'.variants) = Len(VariantsOf(last'.query.sku))
                 /\ \A k \in 1..Len(last'.variants) :
                        LET v == last'.variants[k]
                            under == {l \in Locations :
                                         l = last'.dst \/ ParentOf(l) = last'.dst}
                        IN /\ v.variant_id = VariantsOf(last'.query.sku)[k]
                           /\ v.quantity = LedgerSum(quants, v.variant_id, under, "quantity")
                           /\ v.available_quantity =
                                  LedgerSum(quants, v.variant_id, under, "available")]_vars

\* a query of warehouse 1 whose stock is partly below the stock location and
\* partly reserved
C29_QueriedAboveStock ==
    /\ last.op = "by_sku"
    /\ last.ok
    /\ last.dst = LotStock(1)
    /\ Len(last.variants) = 1
    /\ last.variants[1].quantity > LedgerSum(quants, 1, {LotStock(1)}, "quantity")
    /\ last.variants[1].available_quantity < last.variants[1].quantity
    /\ LedgerSum(quants, 1, {LotStock(1)}, "quantity") > 0

\* C21: a transfer is atomic: one that fails with an internal error after it
\* has written to the source leaves no part of itself behind; after every
\* transfer either the destination holds the quantity more and the request
\* succeeded, or the ledger and the reservations are as they were.
C21_TransferAllOrNothing ==
    [][TransferStep =>
          \/ /\ last'.ok
             /\ OnHand(quants', last'.product, last'.dst) =
                    OnHand(quants, last'.product, last'.dst) + last'.quantity
          \/ /\ ~last'.ok
             /\ UNCHANGED <<quants, moves>>]_vars

\* request i was answered with its success
Succeeded(i) == txs.t[i].pc = "answered" /\ txs.t[i].status = 200

\* what request i, a transfer, has taken out of its source by now
Removed(i) == IF Succeeded(i) THEN txs.t[i].request.quantity.v ELSE 0

\* both requests are transfers out of warehouse w
TransfersOutOf(w) ==
    \A i \in Requests :
       txs.t[i].op = "transfer" /\ txs.t[i].request.source_warehouse_id = w

\* C22: two transfers of the same product out of the same source, served at
\* the same time, never both act on the same stale read: what the two have
\* taken is never more than the on-hand the source had before them (so two
\* whose quantities together exceed it never both succeed), and the source
\* holds exactly that much less.
C22_NoDoubleSpend ==
    \A w \in Warehouses :
       TransfersOutOf(w) =>
          LET before == OnHand(txs.base, 1, LotStock(w)) IN
          /\ Removed(1) + Removed(2) <= before
          /\ (txs.t[1].request.quantity.v + txs.t[2].request.quantity.v > before
                 => ~(Succeeded(1) /\ Succeeded(2)))
          /\ OnHand(quants, 1, LotStock(w)) = before - Removed(1) - Removed(2)

\* both transfers read the same on-hand, each within it and the two together
\* beyond it; the first committed and the second, refused its write, failed
C22_StaleTransferRefused ==
    /\ TransfersOutOf(1)
    /\ txs.t[1].request.quantity.v <= OnHand(txs.base, 1, LotStock(1))
    /\ txs.t[2].request.quantity.v <= OnHand(txs.base, 1, LotStock(1))
    /\ txs.t[1].request.quantity.v + txs.t[2].request.quantity.v
          > OnHand(txs.base, 1, LotStock(1))
    /\ Succeeded(1)
    /\ txs.t[2].pc = "answered"
    /\ txs.t[2].status = 500
    /\ txs.t[2].tries = 1

\* C23: two transfers in opposite directions between the same two
\* warehouses, served at the same time, never deadlock: no state has each
\* of them waiting for a row the other holds.
C23_NoMutualWait ==
    (/\ txs.t[1].op = "transfer"
     /\ txs.t[2].op = "transfer"
     /\ txs.t[1].request.source_warehouse_id = txs.t[2].request.destination_warehouse_id
     /\ txs.t[1].request.destination_warehouse_id = txs.t[2].request.source_warehouse_id)
    => ~(WaitsFor(1, 2) /\ WaitsFor(2, 1))

\* both requests are accepted adds at warehouse w
AddsAt(w) ==
    \A i \in Requests :
       /\ txs.t[i].op = "adjust"
       /\ txs.t[i].request.operation = "add"
       /\ txs.t[i].request.warehouse_id = w
       /\ Succeeded(i)

\* C24: two accepted adds at the same product and location, served at the
\* same time, lose no update: the counted quantity ends as the initial one
\* plus both quantities.
C24_BothAddsCounted ==
    \A w \in Warehouses :
       AddsAt(w) =>
          CurrentCountedQuantity(quants, 1, LotStock(w))
             = CurrentCountedQuantity(txs.base, 1, LotStock(w))
               + txs.t[1].request.quantity.v + txs.t[2].request.quantity.v

\* more than any sequence an inner loop goes over can hold: the lines and
\* the moves there were and those the reservations of the rows add
LoopCap == MaxLines + 9

\* the passes an invocation standing where rn stands can still take, at the
\* most: those of the loop it is in, of the loops that can follow in its
\* row, of the rows after it and of the end of the handler
PassesLeft(rn) ==
    LET row == 2 * LoopCap + 5
        rows(r) == 2 + row * (IF r > Len(rn.idx) THEN 0 ELSE Len(rn.idx) - r + 1)
        row_end == rows(rn.r + 1) + 1
    IN CASE rn.pc = "idle" -> 6 + 4 * row
         [] rn.pc = "subtract" -> rows(1) + 2 + Len(rn.idx) - rn.k
         [] rn.pc = "rows" -> rows(rn.r)
         [] rn.pc = "reduce" -> row_end + LoopCap + 4 + Len(rn.lines) - rn.k
         [] rn.pc = "cancel" -> row_end + 2 + Len(rn.mids) - rn.k
         [] rn.pc = "row_end" -> row_end
         [] rn.pc \in {"destination", "count"} -> 1
         [] OTHER -> 0

\* C25: every transfer and every adjust invocation completes with a result
\* or an error: every step of an invocation, each pass of the subtraction
\* loop, of the reduction loop and of the cancel loop among them, leaves
\* fewer passes to take, no loop goes past the end of what it goes over, and
\* the invocation rests only when it has answered.
C25_InvocationCompletes ==
    [][run' # run =>
          /\ PassesLeft(run') < PassesLeft(run)
          /\ PassesLeft(run') >= 0
          /\ PassesLeft(run') = 0 <=> (run'.pc = "done" /\ run'.status # 0)
          /\ run'.pc = "subtract" => run'.k <= Len(run'.idx) + 1
          /\ run'.pc = "reduce" => run'.k <= Len(run'.lines) + 1
          /\ run'.pc = "cancel" => run'.k <= Len(run'.mids) + 1]_vars

\* a transfer answered after its subtraction went over two rows and the
\* repair of a row took two passes of the reduction loop
C25_LoopsRan ==
    /\ run.pc = "done"
    /\ run.status = 200
    /\ Len(run.idx) = 2
    /\ OnHand(run.st.q, 1, run.src) = 0
    /\ \E a, b \in 1..Len(run.st.tr) :
          a < b /\ run.st.tr[a].tier = "reduce" /\ run.st.tr[b].tier = "reduce"

\* the on-hand of product p over all locations
TotalOnHand(qs, p) == SumOver(qs, Search(qs, p, Locations), 1)

\* C31: after any sequence of transfers and adjusts the sum of a product's
\* on-hand over all locations is its initial sum: no request served creates
\* or destroys stock.
C31_OnHandConserved ==
    [][TotalOnHand(quants', 1) = TotalOnHand(quants, 1)]_vars
\* C32: for every accepted transfer of quantity Q the reported split has
\* available_to_transfer + additional_to_add = Q, with both parts between 0
\* and Q.
C32_SplitAddsUp ==
    TransferDone =>
        /\ last.available_to_transfer + last.additional_to_add = last.quantity
        /\ 0 <= last.available_to_transfer
        /\ last.available_to_transfer <= last.quantity
        /\ 0 <= last.additional_to_add
        /\ last.additional_to_add <= last.quantity

\* an accepted transfer whose split has two parts that are both positive
C32_SplitInTwo ==
    /\ TransferDone
    /\ last.available_to_transfer > 0
    /\ last.additional_to_add > 0
    /\ last.available_to_transfer + last.additional_to_add = last.quantity

\* C33: after any sequence of adjusts (set, add or subtract, with any
\* quantity the endpoint accepts) the counted quantity of every ledger row
\* is >= 0.
C33_CountedNeverNegative ==
    \A i \in 1..Len(quants) : quants[i].inv >= 0

\* the audit entries of product p at location l, oldest first
EntriesAt(lg, p, l) ==
    SelectSeq(lg, LAMBDA e : e.product_id = p /\ e.location_id = l)

\* C34: the audit entries of one (product, location) form a continuous
\* chain: each entry's on_hand_before and available_before are the
\* on_hand_after and available_after of the entry before it, and the latest
\* entry's after-values are the current sums over the rows of the location's
\* subtree.
C34_AuditChain ==
    \A l \in Locations :
        LET es == EntriesAt(log, 1, l) IN
        /\ \A k \in 2..Len(es) :
               /\ es[k].on_hand_before = es[k - 1].on_hand_after
               /\ es[k].available_before = es[k - 1].available_after
        /\ Len(es) > 0 =>
               /\ es[Len(es)].on_hand_after = OnHand(quants, 1, l)
               /\ es[Len(es)].available_after = AvailableQty(quants, 1, l)

\* the entries the step has added to the audit log
NewEntries == SubSeq(log', Len(log) + 1, Len(log'))

\* C35, as stated: of the two audit entries of a successful transfer the
\* source's has direction decrease and the destination's has direction
\* increase.
C35_SourceDecreaseDestinationIncrease ==
    [][(TransferStep /\ last'.ok /\ Len(NewEntries) = 2) =>
          /\ NewEntries[1].location_id = last'.src
          /\ NewEntries[1].direction = "decrease"
          /\ NewEntries[2].location_id = last'.dst
          /\ NewEntries[2].direction = "increase"]_vars

\* C35, amended: the destination's entry of a successful transfer has
\* direction increase; the source's entry has direction decrease when the
\* repair of the source rows neither floored a row nor left the source's
\* available above what it was, and direction increase when the repair left
\* the source's available above what it was.
C35_DirectionsOfTransfer ==
    [][(TransferStep /\ last'.ok /\ Len(NewEntries) = 2) =>
          /\ NewEntries[1].location_id = last'.src
          /\ NewEntries[2].location_id = last'.dst
          /\ NewEntries[2].direction = "increase"
          /\ (/\ last'.fallback = 0
              /\ last'.source_available_after <= last'.source_available_before) =>
                 NewEntries[1].direction = "decrease"
          /\ last'.source_available_after > last'.source_available_before =>
                 NewEntries[1].direction = "increase"]_vars

\* a successful transfer whose source entry is stored as an increase, the
\* on-hand of the source having fallen and its available risen
C35_SourceStoredAsIncrease ==
    /\ TransferDone
    /\ last.audit_failed = 0
    /\ Len(log) >= 2
    /\ log[Len(log) - 1].location_id = last.src
    /\ log[Len(log) - 1].delta_on_hand < 0
    /\ log[Len(log) - 1].direction = "increase"
    /\ log[Len(log)].location_id = last.dst
    /\ log[Len(log)].direction = "increase"

(* ------------------- transfers beside another product ------------------ *)
(* One transfer served from a ledger that also holds a row of a second     *)
(* product (product 2, which no barcode of a request names): the row is     *)
(* at any location, before or after the rows of product 1, with a counted  *)
(* quantity stored and up to one unit reserved by a move of its own.       *)

OtherProduct == 2

OtherRow(l, r) ==
    [product |-> OtherProduct, loc |-> l, quantity |-> MaxQty, reserved |-> r,
     inv |-> 1, inv_set |-> TRUE]

OtherMoves(l, r) ==
    IF r = 0 THEN << >>
    ELSE <<[product |-> OtherProduct, loc |-> l, lines |-> <<[loc |-> l, qty |-> r]>>]>>

FrameInit ==
    /\ \E order \in RowOrders, onhand \in [Locations -> -1..MaxQty],
          ms \in UNION {[1..n -> InitialMoves] : n \in 0..MaxMoves},
          l2 \in Locations, r2 \in 0..1, first \in BOOLEAN :
          /\ \A l \in Locations : ReservedAt(ms, l, 1) <= Max(onhand[l], 0)
          /\ quants = IF first
                      THEN <<OtherRow(l2, r2)>> \o RowsOf(order, 1, onhand, ms)
                      ELSE RowsOf(order, 1, onhand, ms) \o <<OtherRow(l2, r2)>>
          /\ moves = IF first THEN OtherMoves(l2, r2) \o ms ELSE ms \o OtherMoves(l2, r2)
    /\ left = 1
    /\ log = << >>
    /\ last = NoResult
    /\ txs = NoRequests
    /\ run = NoRun
    /\ tokens = InitialTokens

FrameSpec == FrameInit /\ [][Transfer]_vars

\* the row is one the transfer may write: a row of the transferred product
\* in the source's subtree or at one of the locations dsts
Transferred(r, dsts) ==
    /\ r.product = last'.product
    /\ r.loc \in Subtree(last'.src) \cup dsts

\* C36, as stated: a transfer changes only rows of the transferred product
\* in the source location's subtree or at the destination location; every
\* other row keeps its on-hand and its reserved, and no row's counted
\* quantity changes.
C36_TransferFrame ==
    [][TransferStep =>
          /\ Len(quants') >= Len(quants)
          /\ \A i \in 1..Len(quants) :
                 /\ quants'[i].product = quants[i].product
                 /\ quants'[i].loc = quants[i].loc
                 /\ quants'[i].inv = quants[i].inv
                 /\ quants'[i].inv_set = quants[i].inv_set
                 /\ ~Transferred(quants[i], {last'.dst}) =>
                        /\ quants'[i].quantity = quants[i].quantity
                        /\ quants'[i].reserved = quants[i].reserved]_vars

\* C36, amended: a transfer changes the on-hand only of rows of the
\* transferred product in the source location's subtree or at the
\* destination location, and the reserved only of rows of that product in
\* the source's or the destination's subtree; rows of other products keep
\* both, no row's counted quantity changes, and a row the transfer creates
\* is a row of that product at the destination location.
C36_TransferFrameOfSubtrees ==
    [][TransferStep =>
          /\ Len(quants') >= Len(quants)
          /\ \A i \in 1..Len(quants) :
                 /\ quants'[i].product = quants[i].product
                 /\ quants'[i].loc = quants[i].loc
                 /\ quants'[i].inv = quants[i].inv
                 /\ quants'[i].inv_set = quants[i].inv_set
                 /\ ~Transferred(quants[i], {last'.dst}) =>
                        quants'[i].quantity = quants[i].quantity
                 /\ ~Transferred(quants[i], Subtree(last'.dst)) =>
                        quants'[i].reserved = quants[i].reserved
          /\ \A i \in (Len(quants) + 1)..Len(quants') :
                 /\ quants'[i].product = last'.product
                 /\ quants'[i].loc = last'.dst
                 /\ ~quants'[i].inv_set]_vars

\* a successful transfer into warehouse 1 whose additional quantity was
\* reserved on the row of the child location, beside an untouched row of the
\* other product at that location
C36_ReservedBelowDestination ==
    /\ TransferDone
    /\ last.dst = 1
    /\ last.additional_to_add > 0
    /\ \E m \in 1..Len(moves) :
           /\ moves[m].product = 1
           /\ moves[m].loc = 1
           /\ moves[m].lines[1].loc = 2
    /\ \E i \in 1..Len(quants) : quants[i] = OtherRow(2, 1)

(* --------------------------- adjusts in a row -------------------------- *)
(* MaxOps + 1 adjusts served one after another from a ledger without       *)
(* reservations whose rows, where there are any, hold MaxQty.              *)

CountedInit ==
    /\ \E order \in RowOrders, onhand \in [Locations -> {-1, MaxQty}] :
          quants = RowsOf(order, 1, onhand, << >>)
    /\ moves = << >>
    /\ left = MaxOps + 1
    /\ log = << >>
    /\ last = NoResult
    /\ txs = NoRequests
    /\ run = NoRun
    /\ tokens = InitialTokens

CountedSpec == CountedInit /\ [][Adjust]_vars

\* the adjust being served repeats the accepted adjust served before it, at
\* the same product and warehouse and with the same quantity q >= 0, the
\* operation before being `first` and this one `second`
AdjustAfter(first, second) ==
    /\ AdjustStep
    /\ AdjustDone
    /\ last.operation = first
    /\ last.quantity >= 0
    /\ last'.request.operation = second
    /\ last'.request.barcode = last.request.barcode
    /\ last'.request.warehouse_id = last.request.warehouse_id
    /\ last'.request.quantity = last.request.quantity

\* C37: an accepted adjust add q (q >= 0) followed by adjust subtract q at
\* the same product and location is accepted and returns the counted
\* quantity to what it was before the add; adjust set q served twice leaves
\* the counted quantity the first left.
C37_AddSubtractAndSetTwice ==
    [][/\ AdjustAfter("add", "subtract") =>
              /\ last'.ok
              /\ last'.new_counted_quantity = last.previous_counted_quantity
              /\ quants'[QuantIdAt(quants', last.product, last.dst)].inv =
                     last.previous_counted_quantity
       /\ AdjustAfter("set", "set") =>
              /\ last'.ok
              /\ last'.new_counted_quantity = last.new_counted_quantity
              /\ quants'[QuantIdAt(quants', last.product, last.dst)].inv =
                     quants[QuantIdAt(quants, last.product, last.dst)].inv]_vars

(* ------------------------ requests and their tokens -------------------- *)
(* Transfers and adjusts carrying any headers, served one after another    *)
(* from a ledger without reservations whose rows, where there are any,     *)
(* hold MaxQty.                                                            *)

\* POST /api/inventory/transfer with any headers
TokenTransfer ==
    \E headers \in Headers :
       \/ Unauthorized("transfer", headers)
       \/ Authorize(headers) /\ TransferServed

\* POST /api/inventory/adjust with any headers
TokenAdjust ==
    \E headers \in Headers :
       \/ Unauthorized("adjust", headers)
       \/ Authorize(headers) /\ AdjustServed

TokenInit ==
    /\ \E order \in RowOrders, onhand \in [Locations -> {-1, MaxQty}] :
          quants = RowsOf(order, 1, onhand, << >>)
    /\ moves = << >>
    /\ left = MaxOps
    /\ log = << >>
    /\ last = NoResult
    /\ txs = NoRequests
    /\ run = NoRun
    /\ tokens = InitialTokens

TokenNext == TokenTransfer \/ TokenAdjust

TokenSpec == TokenInit /\ [][TokenNext]_vars

\* the step has written the usage of an active token record
ActiveTokenUsed ==
    \E k \in 1..Len(tokens) :
        /\ tokens[k].active
        /\ tokens'[k].usage_count = tokens[k].usage_count + 1

\* C38: a transfer or an adjust whose request carries no token, an unknown
\* token or an inactive token is answered 401 and changes no ledger row, no
\* reservation and no audit entry: these change only in a request whose
\* token matched an active token record, the record whose usage the request
\* has written.
C38_NothingWithoutActiveToken ==
    [][left' = left - 1 =>
          /\ ActiveTokenUsed \/ (last'.status = 401 /\ tokens' = tokens)
          /\ last'.status = 401 => UNCHANGED <<quants, moves, log, tokens>>
          /\ ~UNCHANGED <<quants, moves, log>> => ActiveTokenUsed
          /\ \A k \in 1..Len(tokens) :
                 ~tokens[k].active => tokens'[k] = tokens[k]]_vars

\* a request refused for its token after another was served: the ledger
\* holds what the first request wrote, and the inactive token was never used
C38_RefusedAfterServed ==
    /\ last.status = 401
    /\ last.error = "Invalid API token"
    /\ tokens[1].usage_count = 1
    /\ tokens[2].usage_count = 0
    /\ log # << >>

====
